---- MODULE Spec2Model ----
(***************************************************************************)
(* Model of the PID simulation core: PIDController (pid_controller.py),    *)
(* Platform (physics_platform.py) and the driver PIDSimulator (main.py)    *)
(* with its ControlPanel (ui_controls.py) and its GraphPlotter             *)
(* (graph_plotter.py): the recorded series, the scales and the rendering.  *)
(*                                                                         *)
(* Numbers.  The program computes with Python floats.  The model computes  *)
(* with the same IEEE 754 binary64 values and the same rounding, so every   *)
(* number of the model is the number the program holds.                    *)
(***************************************************************************)
EXTENDS Integers, Sequences, FiniteSets, TLC

VARIABLES
    pid,               \* PIDSimulator.pid: the PIDController and its PIDState
    platform,          \* PIDSimulator.platform: the Platform
    graph_plotter,     \* PIDSimulator.graph_plotter
    simulation_time,   \* PIDSimulator.simulation_time
    simulation_speed,  \* PIDSimulator.simulation_speed
    pid_enabled,       \* PIDSimulator.pid_enabled
    control_panel,     \* PIDSimulator.control_panel: its sliders, checkboxes
                       \* and buttons
    last,              \* the last operation executed, its arguments, the
                       \* locals of PIDController.update and the branch
                       \* Platform.update took
    steps              \* number of operations executed so far

vars == <<pid, platform, graph_plotter, simulation_time, simulation_speed,
          pid_enabled, control_panel, last, steps>>

----------------------------------------------------------------------------
(* IEEE 754 binary64 arithmetic, as Python's float and numpy's float64     *)
(* compute it.  A float is <<sign, mantissa, exponent>> and stands for      *)
(* sign * mantissa * 2^exponent: the sign is 1 or -1, the mantissa an odd   *)
(* natural number below 2^53 written in base 2^14, least significant limb  *)
(* first; zero is <<1, <<>>, 0>>.  The form is canonical, so equality of    *)
(* triples is equality of floats (-0.0 and 0.0, which Python compares       *)
(* equal, are one value).  Every operation computes the exact result and    *)
(* rounds it to 53 significant bits, ties to even, or to a multiple of      *)
(* 2^-1074 where the result is subnormal; a rounded result of 2^1024 or     *)
(* more is an infinity.  The infinities are <<1, <<>>, 1>> and              *)
(* <<-1, <<>>, 1>>, and nan is <<0, <<>>, 1>>.                              *)

Base      == 16384
LimbBits  == 14
Precision == 53

IMax(a, b) == IF a < b THEN b ELSE a
IMin(a, b) == IF a < b THEN a ELSE b

\* naturals of any size: sequences of limbs, no leading zero limb
Limb(x, i) == IF i <= Len(x) THEN x[i] ELSE 0

RECURSIVE BTrim(_)
BTrim(x) ==
    IF x = <<>> THEN x
    ELSE IF x[Len(x)] = 0 THEN BTrim(SubSeq(x, 1, Len(x) - 1))
    ELSE x

\* the limbs of the number whose columns are x[i], carries propagated
RECURSIVE BCarry(_, _, _)
BCarry(x, i, c) ==
    IF i > Len(x)
    THEN IF c = 0 THEN <<>> ELSE <<c % Base>> \o BCarry(x, i, c \div Base)
    ELSE <<(x[i] + c) % Base>> \o BCarry(x, i + 1, (x[i] + c) \div Base)

BAdd(x, y) ==
    BCarry([i \in 1..IMax(Len(x), Len(y)) |-> Limb(x, i) + Limb(y, i)], 1, 0)

\* x - y for x >= y
BSub(x, y) == BTrim(BCarry([i \in 1..Len(x) |-> x[i] - Limb(y, i)], 1, 0))

RECURSIVE ColSum(_, _, _, _)
ColSum(x, y, k, i) ==
    IF i > Len(x) \/ i > k THEN 0
    ELSE (IF k + 1 - i <= Len(y) THEN x[i] * y[k + 1 - i] ELSE 0)
         + ColSum(x, y, k, i + 1)

BMul(x, y) ==
    IF x = <<>> \/ y = <<>> THEN <<>>
    ELSE BCarry([k \in 1..(Len(x) + Len(y) - 1) |-> ColSum(x, y, k, 1)], 1, 0)

BMulLimb(x, k) ==
    IF k = 0 THEN <<>> ELSE BCarry([i \in 1..Len(x) |-> x[i] * k], 1, 0)

\* x * 2^k
BShl(x, k) ==
    IF x = <<>> THEN x
    ELSE [i \in 1..(k \div LimbBits) |-> 0]
         \o BCarry([i \in 1..Len(x) |-> x[i] * 2^(k % LimbBits)], 1, 0)

\* x \div 2^k
BShr(x, k) ==
    LET q == k \div LimbBits
        r == k % LimbBits
        n == Len(x) - q
    IN  IF n <= 0 THEN <<>>
        ELSE BTrim(<<>> \o [i \in 1..n |->
                      (x[q + i] \div 2^r)
                      + (Limb(x, q + i + 1) % 2^r) * 2^(LimbBits - r)])

RECURSIVE ILen(_)
ILen(n) == IF n = 0 THEN 0 ELSE 1 + ILen(n \div 2)

\* number of bits of x
BLen(x) == IF x = <<>> THEN 0 ELSE (Len(x) - 1) * LimbBits + ILen(x[Len(x)])

RECURSIVE BCmpAt(_, _, _)
BCmpAt(x, y, i) ==
    IF i = 0 THEN 0
    ELSE IF x[i] < y[i] THEN -1
    ELSE IF x[i] > y[i] THEN 1
    ELSE BCmpAt(x, y, i - 1)

\* -1, 0, 1 as x < y, x = y, x > y
BCmp(x, y) ==
    IF Len(x) < Len(y) THEN -1
    ELSE IF Len(x) > Len(y) THEN 1
    ELSE BCmpAt(x, y, Len(x))

\* bit k of x, bit 0 the least significant
BBit(x, k) == (Limb(x, k \div LimbBits + 1) \div 2^(k % LimbBits)) % 2

RECURSIVE ITz(_)
ITz(n) == IF n % 2 = 1 THEN 0 ELSE 1 + ITz(n \div 2)

RECURSIVE BTzAt(_, _)
BTzAt(x, i) == IF x[i] = 0 THEN LimbBits + BTzAt(x, i + 1) ELSE ITz(x[i])

\* number of trailing zero bits of x # 0
BTz(x) == BTzAt(x, 1)

\* the largest k <= est with d * k <= r
RECURSIVE QuotientLimb(_, _, _)
QuotientLimb(r, d, est) ==
    IF BCmp(BMulLimb(d, est), r) > 0 THEN QuotientLimb(r, d, est - 1) ELSE est

\* long division by limbs, from limb i of n down: <<quotient, remainder>> of
\* (r * Base^i + the low i limbs of n) by d, for r < d and d's top limb at
\* least Base / 2
RECURSIVE BDivLimbs(_, _, _, _, _)
BDivLimbs(n, d, i, r, q) ==
    IF i = 0 THEN <<BTrim(q), r>>
    ELSE LET r2  == BTrim(<<n[i]>> \o r)
             top == Limb(r2, Len(d) + 1) * Base + Limb(r2, Len(d))
             est == IMin(top \div d[Len(d)], Base - 1)
             k   == QuotientLimb(r2, d, est)
         IN  BDivLimbs(n, d, i - 1, BSub(r2, BMulLimb(d, k)), <<k>> \o q)

\* <<n \div d, (n % d) * 2^s>> for d # 0, s the shift that normalises d
BDivMod(n, d) ==
    LET s == LimbBits - ILen(d[Len(d)])
        a == BShl(n, s)
    IN  BDivLimbs(a, BShl(d, s), Len(a), <<>>, <<>>)

Zero == <<1, <<>>, 0>>
Inf(s) == <<s, <<>>, 1>>
NaN == <<0, <<>>, 1>>

\* what a division by zero gives: Python raises ZeroDivisionError, and an
\* expression with an operand that raised raises too
ZeroDivisionError == <<0, <<>>, 0>>

IsInf(p) == p[2] = <<>> /\ p[3] = 1 /\ p[1] # 0

\* the float s * m * 2^e for m below 2^53, in canonical form; a value of
\* 2^1024 or more is an infinity
Canon(s, m, e) ==
    IF m = <<>> THEN Zero
    ELSE IF BLen(m) + e > 1024 THEN Inf(s)
    ELSE LET tz == BTz(m) IN <<s, BShr(m, tz), e + tz>>

\* s * m * 2^e rounded to the nearest float, ties to even: to Precision
\* bits, and to a multiple of 2^-1074 below 2^-1021
RoundToFloat(s, m, e) ==
    LET sh == IMax(BLen(m) - Precision, (-1074) - e)
    IN  IF sh <= 0 THEN Canon(s, m, e)
        ELSE LET q    == BShr(m, sh)
                 half == BBit(m, sh - 1) = 1
                 rest == BTz(m) < sh - 1
                 up   == half /\ (rest \/ BBit(q, 0) = 1)
             IN  Canon(s, IF up THEN BAdd(q, <<1>>) ELSE q, e + sh)

IAbs(n) == IF n < 0 THEN -n ELSE n

\* float(n) for an int n
Int2R(n) ==
    Canon(IF n < 0 THEN -1 ELSE 1,
          BTrim(<<IAbs(n) % Base, (IAbs(n) \div Base) % Base,
                  IAbs(n) \div (Base * Base)>>), 0)

\* The operations below evaluate each operand once and then compute on
\* the values, as Python does: Once takes the value out of the one-element
\* set that holds the result for the operands' values.
Once(S) == CHOOSE r \in S : TRUE

\* -p
Neg(p) == Once({IF a = Zero THEN a ELSE <<-a[1], a[2], a[3]>> : a \in {p}})

\* abs(p)
RAbs(p) == Once({<<a[1] * a[1], a[2], a[3]>> : a \in {p}})

\* |p| against |q|: -1, 0, 1, for p and q zero or finite
CmpFinite(p, q) ==
    IF p[2] = <<>> THEN (IF q[2] = <<>> THEN 0 ELSE -1)
    ELSE IF q[2] = <<>> THEN 1
    ELSE LET tp == BLen(p[2]) + p[3]
             tq == BLen(q[2]) + q[3]
         IN  IF tp < tq THEN -1
             ELSE IF tp > tq THEN 1
             ELSE BCmp(BShl(p[2], p[3] - IMin(p[3], q[3])),
                       BShl(q[2], q[3] - IMin(p[3], q[3])))

\* |p| against |q|: -1, 0, 1, for p and q no nan
CmpMag(p, q) ==
    IF IsInf(p) THEN (IF IsInf(q) THEN 0 ELSE 1)
    ELSE IF IsInf(q) THEN -1
    ELSE CmpFinite(p, q)

\* one of p and q raised, or is nan
Unordered(p, q) == p[1] = 0 \/ q[1] = 0

\* what an operation gives when an operand raised or is nan
Propagated(p, q) ==
    IF p = ZeroDivisionError \/ q = ZeroDivisionError
    THEN ZeroDivisionError
    ELSE NaN

\* the float nearest to the sum of the values p and q; an operand below a
\* quarter of the last place of the other does not change it
Sum(p, q) ==
    IF Unordered(p, q) THEN Propagated(p, q)
    ELSE IF IsInf(p) THEN (IF IsInf(q) /\ p[1] # q[1] THEN NaN ELSE p)
    ELSE IF IsInf(q) THEN q
    ELSE IF p[2] = <<>> THEN q
    ELSE IF q[2] = <<>> THEN p
    ELSE IF BLen(p[2]) + p[3] > BLen(q[2]) + q[3] + Precision + 2 THEN p
    ELSE IF BLen(q[2]) + q[3] > BLen(p[2]) + p[3] + Precision + 2 THEN q
    ELSE LET e == IMin(p[3], q[3])
             a == BShl(p[2], p[3] - e)
             b == BShl(q[2], q[3] - e)
             c == BCmp(a, b)
         IN  IF p[1] = q[1] THEN RoundToFloat(p[1], BAdd(a, b), e)
             ELSE IF c = 0 THEN Zero
             ELSE IF c > 0 THEN RoundToFloat(p[1], BSub(a, b), e)
             ELSE RoundToFloat(q[1], BSub(b, a), e)

\* p + q
Add(p, q) == Once({Sum(a, b) : a \in {p}, b \in {q}})

\* p - q
Sub(p, q) == Add(p, Neg(q))

\* the float nearest to the product of the values p and q
Product(p, q) ==
    IF Unordered(p, q) THEN Propagated(p, q)
    ELSE IF IsInf(p) \/ IsInf(q)
    THEN (IF p = Zero \/ q = Zero THEN NaN ELSE Inf(p[1] * q[1]))
    ELSE IF p[2] = <<>> \/ q[2] = <<>> THEN Zero
    ELSE RoundToFloat(p[1] * q[1], BMul(p[2], q[2]), p[3] + q[3])

\* p * q
Mul(p, q) == Once({Product(a, b) : a \in {p}, b \in {q}})

\* the float nearest to the quotient of the values p and q; the quotient is
\* computed to 55 bits or more, with one more bit that says whether a
\* remainder is left, and then rounded
Quotient(p, q) ==
    IF p = ZeroDivisionError \/ q = ZeroDivisionError \/ q = Zero
    THEN ZeroDivisionError
    ELSE IF Unordered(p, q) THEN NaN
    ELSE IF IsInf(p) THEN (IF IsInf(q) THEN NaN ELSE Inf(p[1] * q[1]))
    ELSE IF IsInf(q) \/ p[2] = <<>> THEN Zero
    ELSE IF q[2] = <<1>> THEN RoundToFloat(p[1] * q[1], p[2], p[3] - q[3])
    ELSE LET k  == Precision + 2 + BLen(q[2]) - BLen(p[2])
             qr == BDivMod(BShl(p[2], k), q[2])
             m  == BAdd(BShl(qr[1], 1), IF qr[2] = <<>> THEN <<>> ELSE <<1>>)
         IN  RoundToFloat(p[1] * q[1], m, p[3] - q[3] - k - 1)

\* p / q
Div(p, q) == Once({Quotient(a, b) : a \in {p}, b \in {q}})

\* the value p is less than the value q
Less(p, q) ==
    IF Unordered(p, q) THEN FALSE
    ELSE IF p[1] # q[1] THEN p[1] < q[1]
    ELSE IF p[1] = 1 THEN CmpMag(p, q) < 0
    ELSE CmpMag(p, q) > 0

\* p < q
Lt(p, q) == Once({Less(a, b) : a \in {p}, b \in {q}})

\* p <= q
Le(p, q) == Once({~Unordered(a, b) /\ ~Less(b, a) : a \in {p}, b \in {q}})

\* np.clip(v, lo, hi) = minimum(maximum(v, lo), hi), for lo <= hi
Clip(v, lo, hi) ==
    Once({IF Less(a, b) THEN b ELSE IF Less(c, a) THEN c ELSE a :
              a \in {v}, b \in {lo}, c \in {hi}})

\* the float literal n / d, d > 0: the float nearest to the decimal
Dec(n, d) == Div(Int2R(n), Int2R(d))

Half == Dec(1, 2)
Tenth == Dec(1, 10)
Third == Dec(1, 3)
Sixtieth == Dec(1, 60)
One  == Int2R(1)

----------------------------------------------------------------------------
(* PIDController, pid_controller.py *)

PIDState == [error |-> Zero, integral |-> Zero, derivative |-> Zero,
             last_error |-> Zero, output |-> Zero]

\* PIDController.__init__
PIDController(kp, ki, kd) ==
    [kp |-> kp, ki |-> ki, kd |-> kd, state |-> PIDState,
     integral_limit |-> Int2R(1000), output_limit |-> Int2R(100)]

\* the enabled argument absent
None == [none |-> TRUE]

\* enabled.get(key, True)
Get(enabled, key) == IF key \in DOMAIN enabled THEN enabled[key] ELSE TRUE

\* variant of EnabledOrDefault that reads an absent mask as all terms off
EnabledOrDefault_none_off(enabled) ==
    IF "none" \in DOMAIN enabled
    THEN [kp |-> FALSE, ki |-> FALSE, kd |-> FALSE]
    ELSE enabled

\* the mask the call works with
EnabledOrDefault(enabled) ==
    IF "none" \in DOMAIN enabled
    THEN [kp |-> TRUE, ki |-> TRUE, kd |-> TRUE]
    ELSE enabled

error_of(setpoint, current_value) == Sub(setpoint, current_value)

p_term_of(c, en, e) == IF Get(en, "kp") THEN Mul(c.kp, e) ELSE Zero

\* variants of integral_of: one without the anti-windup clip, one that
\* accumulates whatever the mask says
integral_of_unclipped(c, en, e, dt) ==
    IF Get(en, "ki") THEN Add(c.state.integral, Mul(e, dt))
                     ELSE c.state.integral

integral_of_unmasked(c, en, e, dt) ==
    Clip(Add(c.state.integral, Mul(e, dt)),
         Neg(c.integral_limit), c.integral_limit)

\* variant of integral_of that stores error * dt instead of accumulating it
integral_of_overwriting(c, en, e, dt) ==
    IF Get(en, "ki")
    THEN Clip(Mul(e, dt), Neg(c.integral_limit), c.integral_limit)
    ELSE c.state.integral

\* state.integral after the call
integral_of(c, en, e, dt) ==
    IF Get(en, "ki")
    THEN Clip(Add(c.state.integral, Mul(e, dt)),
              Neg(c.integral_limit), c.integral_limit)
    ELSE c.state.integral

i_term_of(c, en, integ) == IF Get(en, "ki") THEN Mul(c.ki, integ) ELSE Zero

\* variant of derivative_of that divides by dt whatever dt is
derivative_of_unguarded(c, en, e, dt) ==
    IF Get(en, "kd") THEN Div(Sub(e, c.state.last_error), dt) ELSE Zero

\* state.derivative after the call
derivative_of(c, en, e, dt) ==
    IF Get(en, "kd") /\ Lt(Zero, dt)
    THEN Div(Sub(e, c.state.last_error), dt)
    ELSE Zero

d_term_of(c, en, deriv, dt) ==
    IF Get(en, "kd") /\ Lt(Zero, dt) THEN Mul(c.kd, deriv) ELSE Zero

\* variant of output_of without the output clip
output_of_unclipped(c, p_term, i_term, d_term) ==
    Add(Add(p_term, i_term), d_term)

\* state.output after the call
output_of(c, p_term, i_term, d_term) ==
    Clip(Add(Add(p_term, i_term), d_term),
         Neg(c.output_limit), c.output_limit)

\* variant of last_error_of that stores the error only when the derivative
\* term is enabled
last_error_of_masked(c, en, e) ==
    IF Get(en, "kd") THEN e ELSE c.state.last_error

\* state.last_error after the call
last_error_of(c, en, e) == e

\* update(setpoint, current_value, dt, enabled): the controller after the
\* call (pid), the value returned (ret) and the locals p_term, i_term, d_term
PID_call(c, setpoint, current_value, dt, enabled) ==
    LET en     == EnabledOrDefault(enabled)
        e      == error_of(setpoint, current_value)
        p_term == p_term_of(c, en, e)
        integ  == integral_of(c, en, e, dt)
        i_term == i_term_of(c, en, integ)
        deriv  == derivative_of(c, en, e, dt)
        d_term == d_term_of(c, en, deriv, dt)
        out    == output_of(c, p_term, i_term, d_term)
    IN  [pid |-> [c EXCEPT !.state = [error      |-> e,
                                      integral   |-> integ,
                                      derivative |-> deriv,
                                      last_error |-> last_error_of(c, en, e),
                                      output     |-> out]],
         ret |-> out,
         p_term |-> p_term, i_term |-> i_term, d_term |-> d_term]

PID_update(c, setpoint, current_value, dt, enabled) ==
    PID_call(c, setpoint, current_value, dt, enabled).pid

\* variant of reset that keeps the accumulated integral
PID_reset_keeping_integral(c) ==
    [c EXCEPT !.state = [PIDState EXCEPT !.integral = c.state.integral]]

PID_reset(c) == [c EXCEPT !.state = PIDState]

PID_set_gains(c, kp, ki, kd) == [c EXCEPT !.kp = kp, !.ki = ki, !.kd = kd]

\* variant of get_components that reports the state without the gains
get_components_ungained(c) ==
    <<c.state.error, c.state.integral, c.state.derivative>>

get_components(c) ==
    <<Mul(c.kp, c.state.error), Mul(c.ki, c.state.integral),
      Mul(c.kd, c.state.derivative)>>

----------------------------------------------------------------------------
(* Platform, physics_platform.py *)

\* Platform.__init__
Platform(x, m) ==
    [x |-> x, mass |-> m, velocity |-> Zero, acceleration |-> Zero,
     wind_force |-> Zero]

damping == Tenth
heavy_damping == Half
deadband_threshold == Int2R(5)
slow_velocity == Half

Platform_apply_force(p, force) ==
    [p EXCEPT !.acceleration = Div(force, p.mass)]

control_force(p) == Mul(p.acceleration, p.mass)

total_force(p) == Add(control_force(p), p.wind_force)

\* variant of in_deadband with the comparison inverted
in_deadband_inverted(p) == ~Lt(RAbs(total_force(p)), deadband_threshold)

\* variant of in_deadband with the threshold of the velocity test
in_deadband_narrow(p) == Lt(RAbs(total_force(p)), slow_velocity)

in_deadband(p) == Lt(RAbs(total_force(p)), deadband_threshold)

\* variant of regime that never takes the early return
regime_without_stop(p) ==
    IF Div(p.wind_force, p.mass) = ZeroDivisionError THEN "ZeroDivisionError"
    ELSE IF in_deadband(p) THEN "braking" ELSE "free"

\* wind_acceleration = self.wind_force / self.mass, computed before the
\* deadband test: with mass 0 the division raises ZeroDivisionError
wind_acceleration(p) == Div(p.wind_force, p.mass)

\* the branch update takes; "ZeroDivisionError" when the division by the
\* mass raises, which ends the call before any branch
regime(p) ==
    IF wind_acceleration(p) = ZeroDivisionError THEN "ZeroDivisionError"
    ELSE IF in_deadband(p)
    THEN IF Lt(RAbs(p.velocity), slow_velocity) THEN "stopped" ELSE "braking"
    ELSE "free"

\* variant of damping_acceleration without the heavy damping of the deadband
damping_acceleration_light(p) == Neg(Mul(damping, p.velocity))

damping_acceleration(p) ==
    IF in_deadband(p) THEN Neg(Mul(heavy_damping, p.velocity))
                      ELSE Neg(Mul(damping, p.velocity))

total_acceleration(p) ==
    Add(Add(p.acceleration, wind_acceleration(p)), damping_acceleration(p))

\* variant of the early return that leaves the acceleration in place
update_stopped_keeping_acceleration(p) == [p EXCEPT !.velocity = Zero]

\* the early return
update_stopped(p) == [p EXCEPT !.velocity = Zero, !.acceleration = Zero]

\* variant of update_moving that moves x by the velocity before the update
update_moving_old_velocity(p, dt) ==
    LET v == Add(p.velocity, Mul(total_acceleration(p), dt))
    IN  [p EXCEPT !.velocity = v,
                  !.x = Add(p.x, Mul(p.velocity, dt)),
                  !.acceleration = Zero]

\* variant of update_moving that leaves the acceleration in place
update_moving_keeping_acceleration(p, dt) ==
    LET v == Add(p.velocity, Mul(total_acceleration(p), dt))
    IN  [p EXCEPT !.velocity = v, !.x = Add(p.x, Mul(v, dt))]

update_moving(p, dt) ==
    LET v == Add(p.velocity, Mul(total_acceleration(p), dt))
    IN  [p EXCEPT !.velocity = v,
                  !.x = Add(p.x, Mul(v, dt)),
                  !.acceleration = Zero]

\* Platform.update.  The division of wind_force by mass comes first: with
\* mass 0 the call raises in every regime, the early return included, and
\* the result shows it as ZeroDivisionError in velocity and x
Platform_update(p, dt) ==
    IF regime(p) = "stopped" THEN update_stopped(p)
    ELSE update_moving(p, dt)

\* variant of set_position that keeps the velocity
Platform_set_position_keeping_velocity(p, x) ==
    [p EXCEPT !.x = x, !.acceleration = Zero]

Platform_set_position(p, x) ==
    [p EXCEPT !.x = x, !.velocity = Zero, !.acceleration = Zero]

get_position(p) == p.x

----------------------------------------------------------------------------
(* Platform, platform.py: the platform without wind and deadband.  It has  *)
(* the fields x, mass, velocity and acceleration of the record above.      *)

friction_coefficient == Tenth

Legacy_update(p, dt) ==
    LET friction_force == Neg(Mul(friction_coefficient, p.velocity))
        friction_acceleration == Div(friction_force, p.mass)
        v == Add(p.velocity, Mul(Add(p.acceleration, friction_acceleration), dt))
    IN  [p EXCEPT !.velocity = v,
                  !.x = Add(p.x, Mul(v, dt)),
                  !.acceleration = Zero]

Legacy_set_position(p, x) ==
    [p EXCEPT !.x = x, !.velocity = Zero, !.acceleration = Zero]

Legacy_get_position(p) == p.x

----------------------------------------------------------------------------
(* GraphPlotter, graph_plotter.py.  The object holds the six series of the *)
(* telemetry with start_time and current_time, the scales of the two y     *)
(* axes (error_range and output_range are (-scale, scale) of them), the    *)
(* auto-zoom flag, and surface, what update rendered last: the points it   *)
(* plotted and the scales it plotted them on.                              *)

time_window == Int2R(20)

\* surface = None
NoSurface == [none |-> TRUE]

\* GraphPlotter.__init__
GraphPlotter ==
    [time_data |-> <<>>, error_data |-> <<>>, output_data |-> <<>>,
     p_data |-> <<>>, i_data |-> <<>>, d_data |-> <<>>,
     start_time |-> Zero, current_time |-> Zero,
     error_scale |-> Int2R(2), output_scale |-> Int2R(100),
     auto_zoom_enabled |-> TRUE, surface |-> NoSurface]

\* max(p, q) and min(p, q): the second argument replaces the first when it
\* is greater (less) than it, so a nan in second place is skipped and a nan
\* in first place stays
RMax(p, q) == IF Lt(p, q) THEN q ELSE p
RMin(p, q) == IF Lt(q, p) THEN q ELSE p

\* max(data) and min(data) of a nonempty list: the running maximum
\* (minimum) from left to right, m the one so far
RECURSIVE ListMax(_, _)
ListMax(m, data) ==
    IF Len(data) = 0 THEN m ELSE ListMax(RMax(m, Head(data)), Tail(data))

RECURSIVE ListMin(_, _)
ListMin(m, data) ==
    IF Len(data) = 0 THEN m ELSE ListMin(RMin(m, Head(data)), Tail(data))

\* max(abs(min(data)), abs(max(data))) of a nonempty list
MaxAbs(data) ==
    RMax(RAbs(ListMin(Head(data), Tail(data))),
         RAbs(ListMax(Head(data), Tail(data))))

\* the literals 0.95 and 1.2 of add_data and auto_scale, 0.8 of zoom_in_y
\* and 1.25 of zoom_out_y
scale_threshold == Dec(19, 20)
scale_margin == Dec(6, 5)
zoom_in_factor == Dec(4, 5)
zoom_out_factor == Dec(5, 4)

\* the auto-adjustment of the scales at the end of add_data
AutoAdjust(g, error, output, p_component, i_component, d_component) ==
    LET max_output_value ==
            ListMax(RAbs(output), <<RAbs(p_component), RAbs(i_component),
                                    RAbs(d_component)>>)
        grow_error  == Lt(Mul(g.error_scale, scale_threshold), RAbs(error))
        grow_output == Lt(Mul(g.output_scale, scale_threshold), max_output_value)
    IN  [g EXCEPT
           !.error_scale  = IF g.auto_zoom_enabled /\ grow_error
                            THEN Mul(RAbs(error), scale_margin) ELSE @,
           !.output_scale = IF g.auto_zoom_enabled /\ grow_output
                            THEN Mul(max_output_value, scale_margin) ELSE @]

\* variant of add_data that keeps a window of one sample
add_data_windowed(g, time, error, output, p_comp, i_comp, d_comp) ==
    LET start == IF Len(g.time_data) = 0 THEN time ELSE g.start_time
        now   == Sub(time, start)
    IN  AutoAdjust([g EXCEPT !.time_data    = <<now>>,
                             !.error_data   = <<error>>,
                             !.output_data  = <<output>>,
                             !.p_data       = <<p_comp>>,
                             !.i_data       = <<i_comp>>,
                             !.d_data       = <<d_comp>>,
                             !.start_time   = start,
                             !.current_time = now],
                   error, output, p_comp, i_comp, d_comp)

\* GraphPlotter.add_data
add_data(g, time, error, output, p_component, i_component, d_component) ==
    LET start == IF Len(g.time_data) = 0 THEN time ELSE g.start_time
        now   == Sub(time, start)
    IN  AutoAdjust([g EXCEPT !.time_data    = Append(@, now),
                             !.error_data   = Append(@, error),
                             !.output_data  = Append(@, output),
                             !.p_data       = Append(@, p_component),
                             !.i_data       = Append(@, i_component),
                             !.d_data       = Append(@, d_component),
                             !.start_time   = start,
                             !.current_time = now],
                   error, output, p_component, i_component, d_component)

\* np.array(data)[mask] with mask = time_array >= min_time
RECURSIVE Window(_, _, _)
Window(data, times, min_time) ==
    IF Len(data) = 0 THEN <<>>
    ELSE IF Le(min_time, Head(times))
         THEN <<Head(data)>> \o Window(Tail(data), Tail(times), min_time)
         ELSE Window(Tail(data), Tail(times), min_time)

\* the arrays update plots: all points, or those of the last time_window
Plotted(g, data) ==
    IF Lt(time_window, g.current_time)
    THEN Window(data, g.time_data, Sub(g.current_time, time_window))
    ELSE data

\* what update renders
Rendered(g) ==
    [time   |-> Plotted(g, g.time_data),
     error  |-> Plotted(g, g.error_data),
     output |-> Plotted(g, g.output_data),
     p      |-> Plotted(g, g.p_data),
     i      |-> Plotted(g, g.i_data),
     d      |-> Plotted(g, g.d_data),
     error_scale  |-> g.error_scale,
     output_scale |-> g.output_scale]

\* variant of update that keeps only the plotted points in the lists
Plotter_update_evicting(g) ==
    IF Len(g.time_data) < 2 THEN g
    ELSE [g EXCEPT !.surface = Rendered(g),
                   !.time_data = Plotted(g, g.time_data),
                   !.error_data = Plotted(g, g.error_data),
                   !.output_data = Plotted(g, g.output_data),
                   !.p_data = Plotted(g, g.p_data),
                   !.i_data = Plotted(g, g.i_data),
                   !.d_data = Plotted(g, g.d_data)]

\* GraphPlotter.update
Plotter_update(g) ==
    IF Len(g.time_data) < 2 THEN g
    ELSE [g EXCEPT !.surface = Rendered(g)]

\* GraphPlotter.draw: blits surface, or a placeholder, to the screen
Plotter_draw(g) == g

\* GraphPlotter.zoom_in_y
zoom_in_y(g) ==
    [g EXCEPT !.auto_zoom_enabled = FALSE,
              !.error_scale  = RMax(One, Mul(@, zoom_in_factor)),
              !.output_scale = RMax(Int2R(10), Mul(@, zoom_in_factor))]

\* GraphPlotter.zoom_out_y
zoom_out_y(g) ==
    [g EXCEPT !.auto_zoom_enabled = FALSE,
              !.error_scale  = RMin(Int2R(2000), Mul(@, zoom_out_factor)),
              !.output_scale = RMin(Int2R(2000), Mul(@, zoom_out_factor))]

\* GraphPlotter.auto_scale
auto_scale(g) ==
    LET all_outputs == g.output_data \o g.p_data \o g.i_data \o g.d_data
    IN  [g EXCEPT
           !.auto_zoom_enabled = TRUE,
           !.error_scale =
               IF Len(g.error_data) > 0
               THEN RMax(One, RMin(Int2R(2000),
                                   Mul(MaxAbs(g.error_data), scale_margin)))
               ELSE @,
           !.output_scale =
               IF Len(g.output_data) > 0
               THEN RMax(Int2R(10), RMin(Int2R(2000),
                                         Mul(MaxAbs(all_outputs), scale_margin)))
               ELSE @]

\* GraphPlotter.reset
Graph_reset(g) ==
    [g EXCEPT !.time_data = <<>>, !.error_data = <<>>, !.output_data = <<>>,
              !.p_data = <<>>, !.i_data = <<>>, !.d_data = <<>>,
              !.start_time = Zero, !.current_time = Zero]

----------------------------------------------------------------------------
(* PIDSimulator, main.py *)

width == 1600
height == 950
control_panel_width == 450
graph_height == 400
fps == 60

sim_width == width - control_panel_width
sim_height == height - graph_height
center_x == Int2R(sim_width \div 2)

\* self.dt = 1.0 / config.fps
frame_dt == Dec(1, fps)

\* the record of an operation: its name, its arguments, what it returned,
\* the locals p_term, i_term, d_term of PIDController.update, the local
\* control_force of Platform.update and the branch Platform.update took,
\* what the operation found: the controller state (before), the platform
\* (platform_before) and the simulation time (time_before), and for an
\* event the keys of the dict ControlPanel.handle_event returned (changed),
\* event.pos (arg, ret) and what pygame.mouse.get_pos() returned (mouse)
NoCall ==
    [op |-> "init", setpoint |-> Zero, current_value |-> Zero, dt |-> Zero,
     enabled |-> None, arg |-> Zero, ret |-> Zero,
     p_term |-> Zero, i_term |-> Zero, d_term |-> Zero,
     control_force |-> Zero, regime |-> "none",
     before |-> PIDState, platform_before |-> Platform(Zero, One),
     time_before |-> Zero, changed |-> {}, mouse |-> <<0, 0>>]

Call(op, arg) == [NoCall EXCEPT !.op = op, !.arg = arg]

----------------------------------------------------------------------------
(* Slider, Checkbox, Button and ControlPanel, ui_controls.py.  Pixel       *)
(* coordinates are integers; slider values are floats.                     *)

\* pygame.Rect(x, y, width, height)
Rect(x, y, w, h) == [left |-> x, top |-> y, width |-> w, height |-> h]

\* rect.right
Right(r) == r.left + r.width

\* rect.collidepoint(pos): the right and the bottom edge are outside
collidepoint(r, pos) ==
    /\ r.left <= pos[1] /\ pos[1] < r.left + r.width
    /\ r.top <= pos[2] /\ pos[2] < r.top + r.height

\* ControlPanel(self.sim_width + 20, 20) and its layout
panel_x == sim_width + 20
panel_y == 20
panel_width == 400
padding == 10
slider_height == 20
slider_spacing == 60
checkbox_size == 20
button_height == 30
button_width == (panel_width - 3 * padding) \div 2
button_width_small == (panel_width - 4 * padding) \div 3

SliderNames == {"kp", "ki", "kd", "mass", "speed", "wind"}
CheckboxNames == {"kp_enabled", "ki_enabled", "kd_enabled"}
ButtonNames == {"reset_graphs", "reset_simulation", "zoom_in", "zoom_out",
                "auto_scale"}

\* the row of a slider in the panel
SliderRow ==
    [kp |-> 0, ki |-> 1, kd |-> 2, mass |-> 3, speed |-> 4, wind |-> 5]

\* Slider.rect
SliderRect(name) ==
    IF name \in {"kp", "ki", "kd"}
    THEN Rect(panel_x + padding + 30,
              panel_y + padding + SliderRow[name] * slider_spacing,
              panel_width - 50, slider_height)
    ELSE Rect(panel_x + padding,
              panel_y + padding + SliderRow[name] * slider_spacing,
              panel_width - 2 * padding, slider_height)

\* Slider.min_val, Slider.max_val and the initial value
SliderMin ==
    [kp |-> Zero, ki |-> Zero, kd |-> Zero, mass |-> Tenth,
     speed |-> Half, wind |-> Int2R(-20)]
SliderMax ==
    [kp |-> Int2R(20), ki |-> Int2R(3), kd |-> Int2R(10),
     mass |-> Int2R(10), speed |-> Int2R(5), wind |-> Int2R(20)]
SliderInitial ==
    [kp |-> Int2R(5), ki |-> Half, kd |-> Int2R(2), mass |-> One,
     speed |-> Dec(11, 5), wind |-> Zero]

\* Checkbox.rect
CheckboxRect(name) ==
    LET row == CASE name = "kp_enabled" -> 0
                 [] name = "ki_enabled" -> 1
                 [] name = "kd_enabled" -> 2
    IN  Rect(panel_x + padding,
             panel_y + padding + row * slider_spacing + 5,
             checkbox_size, checkbox_size)

\* Button.rect
ButtonRect(name) ==
    LET first  == panel_y + padding + 6 * slider_spacing
        second == first + 40
    IN  CASE name = "reset_graphs" ->
               Rect(panel_x + padding, first, button_width, button_height)
          [] name = "reset_simulation" ->
               Rect(panel_x + padding + button_width + padding, first,
                    button_width, button_height)
          [] name = "zoom_in" ->
               Rect(panel_x + padding, second, button_width_small,
                    button_height)
          [] name = "zoom_out" ->
               Rect(panel_x + padding + button_width_small + padding, second,
                    button_width_small, button_height)
          [] name = "auto_scale" ->
               Rect(panel_x + padding + 2 * (button_width_small + padding),
                    second, button_width_small, button_height)

\* ControlPanel.__init__: the value and the dragging flag of every slider,
\* the checked flag of every checkbox, the hovered and pressed flags of
\* every button
ControlPanel ==
    [value    |-> SliderInitial,
     dragging |-> [n \in SliderNames |-> FALSE],
     checked  |-> [n \in CheckboxNames |-> TRUE],
     hovered  |-> [n \in ButtonNames |-> FALSE],
     pressed  |-> [n \in ButtonNames |-> FALSE]]

\* variant of update_value that does not clamp the pointer to the slider
update_value_unclamped(name, mouse_x) ==
    LET r == SliderRect(name)
        ratio == Div(Int2R(mouse_x - r.left), Int2R(r.width))
    IN  Add(SliderMin[name],
            Mul(ratio, Sub(SliderMax[name], SliderMin[name])))

\* Slider._update_value: the value for a pointer at mouse_x
update_value(name, mouse_x) ==
    LET r == SliderRect(name)
        x == IMax(r.left, IMin(mouse_x, Right(r)))
        ratio == Div(Int2R(x - r.left), Int2R(r.width))
    IN  Add(SliderMin[name],
            Mul(ratio, Sub(SliderMax[name], SliderMin[name])))

\* the mass a press 86 pixels from the left end of the mass slider gives:
\* 2.340526315789474; 5.0 / mass * mass is 4.999999999999999 for it
slider_mass == update_value("mass", SliderRect("mass").left + 86)

\* Slider.handle_event returns True
slider_changed(cp, name, type, pos) ==
    \/ type = "MOUSEBUTTONDOWN" /\ collidepoint(SliderRect(name), pos)
    \/ type = "MOUSEMOTION" /\ cp.dragging[name]

\* Checkbox.handle_event returns True
checkbox_changed(cp, name, type, pos) ==
    type = "MOUSEBUTTONDOWN" /\ collidepoint(CheckboxRect(name), pos)

\* Button.handle_event returns True
button_clicked(cp, name, type, pos) ==
    /\ type = "MOUSEBUTTONUP"
    /\ cp.pressed[name]
    /\ collidepoint(ButtonRect(name), pos)

\* ControlPanel.handle_event: the panel after the event
panel_after(cp, type, pos) ==
    [value |->
        [n \in SliderNames |->
            IF slider_changed(cp, n, type, pos)
            THEN update_value(n, pos[1]) ELSE cp.value[n]],
     dragging |->
        [n \in SliderNames |->
            CASE type = "MOUSEBUTTONDOWN" ->
                   cp.dragging[n] \/ collidepoint(SliderRect(n), pos)
              [] type = "MOUSEBUTTONUP" -> FALSE
              [] OTHER -> cp.dragging[n]],
     checked |->
        [n \in CheckboxNames |->
            IF checkbox_changed(cp, n, type, pos)
            THEN ~cp.checked[n] ELSE cp.checked[n]],
     hovered |->
        [n \in ButtonNames |->
            IF type = "MOUSEMOTION" THEN collidepoint(ButtonRect(n), pos)
                                    ELSE cp.hovered[n]],
     pressed |->
        [n \in ButtonNames |->
            CASE type = "MOUSEBUTTONDOWN" ->
                   cp.pressed[n] \/ collidepoint(ButtonRect(n), pos)
              [] type = "MOUSEBUTTONUP" -> FALSE
              [] OTHER -> cp.pressed[n]]]

\* ControlPanel.handle_event: the keys of the dict it returns
changed_keys(cp, type, pos) ==
    {n \in SliderNames : slider_changed(cp, n, type, pos)}
    \cup {n \in CheckboxNames : checkbox_changed(cp, n, type, pos)}
    \cup {n \in ButtonNames : button_clicked(cp, n, type, pos)}

\* the panel after the user has set the kp, ki, mass and speed sliders and
\* the enabled boxes and has released the button
panel_showing(kp, ki, mass, speed, mask) ==
    [ControlPanel EXCEPT
        !.value.kp = kp, !.value.ki = ki, !.value.mass = mass,
        !.value.speed = speed,
        !.checked = [kp_enabled |-> mask.kp, ki_enabled |-> mask.ki,
                     kd_enabled |-> mask.kd]]

\* PIDSimulator.__init__
Init ==
    /\ pid = PIDController(Int2R(5), Half, Int2R(2))
    /\ platform = Platform(center_x, One)
    /\ graph_plotter = GraphPlotter
    /\ simulation_time = Zero
    /\ simulation_speed = Dec(11, 5)
    /\ pid_enabled = [kp |-> TRUE, ki |-> TRUE, kd |-> TRUE]
    /\ last = NoCall
    /\ steps = 0
    /\ control_panel = ControlPanel

----------------------------------------------------------------------------
(* Bounds of the exploration and the inputs the operations are called with *)

\* operations per behaviour of SpecPID
MaxCalls == 3

\* <<setpoint, current_value>> of PIDController.update: a small error
\* (output and integral unclamped) and a positive and a negative error
\* large enough to reach output_limit and, with dt = 2, integral_limit
Measurements == {<<Int2R(575), Int2R(574)>>, <<Int2R(575), Int2R(-700)>>,
                 <<Zero, Int2R(574)>>}

\* dt of PIDController.update: zero, a fraction, more than one
PidDts == {Zero, Half, Int2R(2)}

\* gains given to set_gains
GainSets == {<<Int2R(5), Half, Int2R(2)>>, <<One, Zero, Zero>>,
             <<Zero, Int2R(3), Zero>>}

\* the enabled argument: None, a dict with the three keys (one term off, or
\* all three), or a dict with one key only, the others defaulting to True
EnabledDicts ==
    {[kp |-> FALSE, ki |-> TRUE, kd |-> TRUE],
     [kp |-> TRUE, ki |-> TRUE, kd |-> FALSE],
     [kp |-> FALSE, ki |-> FALSE, kd |-> FALSE],
     [ki |-> FALSE]}
EnabledArgs == EnabledDicts \cup {None}

\* operations per behaviour of SpecPlatform
MaxPlatformCalls == 5

\* force given to Platform.apply_force: inside the deadband (|force| < 5),
\* on its edge, the force of the acceleration scenario, and the largest
\* control force
Forces == {Int2R(-4), Int2R(5), Int2R(20), Int2R(100)}

\* dt of Platform.update: one frame at 60 fps, and two coarse steps
PlatformDts == {Sixtieth, Half, Int2R(5)}

\* positions given to Platform.set_position
Positions == {Int2R(7), Int2R(-2)}

\* values assigned to Platform.mass and Platform.wind_force
Masses == {One, Int2R(2)}
Winds  == {Zero, Int2R(-20)}

----------------------------------------------------------------------------
(* SpecPID: the controller alone, its methods called in any order *)

CallUpdate ==
    \E m \in Measurements, dt \in PidDts, enabled \in EnabledArgs :
        /\ steps < MaxCalls
        /\ \E r \in {PID_call(pid, m[1], m[2], dt, enabled)} :
               /\ pid' = r.pid
               /\ last' = [NoCall EXCEPT !.op = "PID.update",
                                         !.setpoint = m[1],
                                         !.current_value = m[2],
                                         !.dt = dt, !.enabled = enabled,
                                         !.ret = r.ret,
                                         !.p_term = r.p_term,
                                         !.i_term = r.i_term,
                                         !.d_term = r.d_term]
        /\ steps' = steps + 1
        /\ UNCHANGED control_panel
        /\ UNCHANGED <<platform, graph_plotter, simulation_time,
                       simulation_speed, pid_enabled>>

CallReset ==
    /\ steps < MaxCalls
    /\ pid' = PID_reset(pid)
    /\ last' = [Call("PID.reset", Zero) EXCEPT !.before = pid.state]
    /\ steps' = steps + 1
    /\ UNCHANGED control_panel
    /\ UNCHANGED <<platform, graph_plotter, simulation_time,
                   simulation_speed, pid_enabled>>

CallSetGains ==
    \E g \in GainSets :
        /\ steps < MaxCalls
        /\ pid' = PID_set_gains(pid, g[1], g[2], g[3])
        /\ last' = Call("PID.set_gains", Zero)
        /\ steps' = steps + 1
        /\ UNCHANGED control_panel
        /\ UNCHANGED <<platform, graph_plotter, simulation_time,
                       simulation_speed, pid_enabled>>

CallGetComponents ==
    \E t \in {get_components(pid)} :
        /\ steps < MaxCalls
        /\ pid' = pid
        /\ last' = [Call("PID.get_components", Zero) EXCEPT
                       !.p_term = t[1], !.i_term = t[2], !.d_term = t[3]]
        /\ steps' = steps + 1
        /\ UNCHANGED control_panel
        /\ UNCHANGED <<platform, graph_plotter, simulation_time,
                       simulation_speed, pid_enabled>>

NextPID == CallUpdate \/ CallReset \/ CallSetGains \/ CallGetComponents

SpecPID == Init /\ [][NextPID]_vars

----------------------------------------------------------------------------
(* SpecPlatform: a platform alone, constructed at x = 0 with mass 1, its   *)
(* methods called and its mass and wind_force assigned in any order        *)

InitPlatform ==
    /\ pid = PIDController(Int2R(5), Half, Int2R(2))
    /\ platform = Platform(Zero, One)
    /\ graph_plotter = GraphPlotter
    /\ simulation_time = Zero
    /\ simulation_speed = Dec(11, 5)
    /\ pid_enabled = [kp |-> TRUE, ki |-> TRUE, kd |-> TRUE]
    /\ last = NoCall
    /\ steps = 0
    /\ control_panel = ControlPanel

PlatformStep(call) ==
    /\ last' = call
    /\ steps' = steps + 1
    /\ UNCHANGED control_panel
    /\ UNCHANGED <<pid, graph_plotter, simulation_time, simulation_speed,
                   pid_enabled>>

CallApplyForce ==
    \E force \in Forces :
        /\ steps < MaxPlatformCalls
        /\ platform' = Platform_apply_force(platform, force)
        /\ PlatformStep(Call("Platform.apply_force", force))

CallPlatformUpdate ==
    \E dt \in PlatformDts :
        /\ steps < MaxPlatformCalls
        /\ platform' = Platform_update(platform, dt)
        /\ PlatformStep([NoCall EXCEPT
                            !.op = "Platform.update", !.dt = dt,
                            !.platform_before = platform,
                            !.control_force = control_force(platform),
                            !.regime = regime(platform)])

CallSetPosition ==
    \E new_x \in Positions :
        /\ steps < MaxPlatformCalls
        /\ platform' = Platform_set_position(platform, new_x)
        /\ PlatformStep([Call("Platform.set_position", new_x) EXCEPT
                            !.platform_before = platform])

\* main.py: self.platform.mass = changed['mass']
AssignMass ==
    \E m \in Masses :
        /\ steps < MaxPlatformCalls
        /\ m # platform.mass
        /\ platform' = [platform EXCEPT !.mass = m]
        /\ PlatformStep(Call("mass", m))

\* main.py: self.platform.wind_force = changed['wind']
AssignWind ==
    \E w \in Winds :
        /\ steps < MaxPlatformCalls
        /\ w # platform.wind_force
        /\ platform' = [platform EXCEPT !.wind_force = w]
        /\ PlatformStep(Call("wind", w))

NextPlatform ==
    \/ CallApplyForce
    \/ CallPlatformUpdate
    \/ CallSetPosition
    \/ AssignMass
    \/ AssignWind

SpecPlatform == InitPlatform /\ [][NextPlatform]_vars

----------------------------------------------------------------------------
(* Spec: the driver.  PIDSimulator.run alternates handle_events, which     *)
(* handles each pending event in full, and the body of one tick; an event  *)
(* and a tick are one step each.  The events are the presses, motions and  *)
(* releases of the pointer that pygame delivers.                           *)

\* events and ticks per behaviour of Spec
MaxSteps == 4

\* event.pos of a MOUSEBUTTONDOWN: in the simulation area; on the kp, mass,
\* speed and wind sliders; on the ki checkbox; on the reset graphs, the
\* reset simulation and the zoom in button
DownPointers ==
    { <<300, 100>>,
      <<1245, 40>>, <<1559, 220>>, <<1370, 280>>, <<1275, 340>>,
      <<1190, 100>>, <<1200, 400>>, <<1400, 400>>, <<1200, 440>> }

\* presses <<event.pos, pygame.mouse.get_pos()>> handled after the pointer
\* has moved on: pressed in the simulation area and moved within it,
\* pressed on the kp slider and moved into the simulation area, pressed in
\* the simulation area and moved onto the kp slider
MovedPresses ==
    { << <<300, 100>>, <<574, 100>> >>,
      << <<1245, 40>>, <<300, 100>> >>,
      << <<300, 100>>, <<1245, 40>> >> }

\* the presses of Spec: the pointer still where the button went down, or
\* moved on
Presses == {<<pos, pos>> : pos \in DownPointers} \cup MovedPresses

\* pointer positions of a MOUSEMOTION: right of every slider
MotionPointers == { <<1599, 700>> }

\* pointer positions of a MOUSEBUTTONUP: on the three buttons
UpPointers == { <<1200, 400>>, <<1400, 400>>, <<1200, 440>> }

\* the attributes of PIDSimulator that events and ticks change
Simulator ==
    [pid |-> pid, platform |-> platform, graph_plotter |-> graph_plotter,
     simulation_time |-> simulation_time,
     simulation_speed |-> simulation_speed, pid_enabled |-> pid_enabled,
     control_panel |-> control_panel]

\* variant of reset_simulation that leaves the simulation time running
reset_simulation_keeping_time(s) ==
    [s EXCEPT !.platform = Platform_set_position(@, center_x),
              !.pid = PID_reset(@),
              !.graph_plotter = Graph_reset(@)]

\* PIDSimulator.reset_simulation
reset_simulation(s) ==
    [s EXCEPT !.platform = Platform_set_position(@, center_x),
              !.pid = PID_reset(@),
              !.graph_plotter = Graph_reset(@),
              !.simulation_time = Zero]

\* handle_events, MOUSEBUTTONDOWN: when the pointer, read with
\* pygame.mouse.get_pos() while the event is handled, is in the simulation
\* area, the platform is placed at its x
clicked(s, type, mouse) ==
    IF type = "MOUSEBUTTONDOWN"
       /\ mouse[1] < sim_width /\ mouse[2] < sim_height
    THEN [s EXCEPT !.platform = Platform_set_position(@, Int2R(mouse[1]))]
    ELSE s

\* handle_events, if changed: the slider values and checkbox flags of the
\* dict the panel returned, applied in the order of the code; cp is the
\* panel after the event
apply_changed(s, keys, cp) ==
    [s EXCEPT
        !.pid.kp = IF "kp" \in keys THEN cp.value.kp ELSE @,
        !.pid.ki = IF "ki" \in keys THEN cp.value.ki ELSE @,
        !.pid.kd = IF "kd" \in keys THEN cp.value.kd ELSE @,
        !.platform.mass = IF "mass" \in keys THEN cp.value.mass ELSE @,
        !.platform.wind_force = IF "wind" \in keys THEN cp.value.wind ELSE @,
        !.pid_enabled.kp =
            IF "kp_enabled" \in keys THEN cp.checked.kp_enabled ELSE @,
        !.pid_enabled.ki =
            IF "ki_enabled" \in keys THEN cp.checked.ki_enabled ELSE @,
        !.pid_enabled.kd =
            IF "kd_enabled" \in keys THEN cp.checked.kd_enabled ELSE @,
        !.simulation_speed = IF "speed" \in keys THEN cp.value.speed ELSE @]

\* handle_events, if changed: the reset buttons
reset_buttons(s, keys) ==
    LET a == IF "reset_graphs" \in keys
             THEN [s EXCEPT !.graph_plotter = Graph_reset(@),
                            !.simulation_time = Zero]
             ELSE s
    IN  IF "reset_simulation" \in keys THEN reset_simulation(a) ELSE a

\* handle_events, if changed: the zoom buttons, each followed by update
zoom_buttons(g, keys) ==
    LET a == IF "zoom_in" \in keys THEN Plotter_update(zoom_in_y(g)) ELSE g
        b == IF "zoom_out" \in keys THEN Plotter_update(zoom_out_y(a)) ELSE a
    IN  IF "auto_scale" \in keys THEN Plotter_update(auto_scale(b)) ELSE b

\* handle_events after the panel has handled the event: cp is the panel
\* after it and keys the keys of the dict it returned; the press is looked
\* at first, then the changes are applied in the order of the code
apply_event(s, cp, keys, type, mouse) ==
    Once({ [c EXCEPT !.graph_plotter = zoom_buttons(@, keys)] :
           c \in { reset_buttons(b, keys) :
                   b \in { apply_changed(a, keys, cp) :
                           a \in { [clicked(s, type, mouse) EXCEPT
                                       !.control_panel = cp] } } } })

\* handle_events for one event of the given type: the simulator after it.
\* pos is event.pos, which the panel reads; mouse is what
\* pygame.mouse.get_pos() returns while the event is handled, which the
\* MOUSEBUTTONDOWN branch reads
handle_event(s, type, pos, mouse) ==
    Once({ apply_event(s, cp, keys, type, mouse) :
           cp \in {panel_after(s.control_panel, type, pos)},
           keys \in {changed_keys(s.control_panel, type, pos)} })

\* one event handled: the simulator is as handle_event leaves it
HandleEvent(type, pos, mouse) ==
    \E s \in {handle_event(Simulator, type, pos, mouse)} :
        /\ pid' = s.pid
        /\ platform' = s.platform
        /\ graph_plotter' = s.graph_plotter
        /\ simulation_time' = s.simulation_time
        /\ simulation_speed' = s.simulation_speed
        /\ pid_enabled' = s.pid_enabled
        /\ control_panel' = s.control_panel
        /\ last' = [Call(type, Int2R(pos[1])) EXCEPT
                       !.ret = Int2R(pos[2]),
                       !.mouse = mouse,
                       !.before = pid.state,
                       !.platform_before = platform,
                       !.time_before = simulation_time,
                       !.changed = changed_keys(control_panel, type, pos)]
        /\ steps' = steps + 1

\* the events of Spec; the pointer is read only for a press
EventMouseButtonDown ==
    /\ steps < MaxSteps
    /\ \E e \in Presses : HandleEvent("MOUSEBUTTONDOWN", e[1], e[2])

EventMouseMotion ==
    /\ steps < MaxSteps
    /\ \E pos \in MotionPointers : HandleEvent("MOUSEMOTION", pos, pos)

EventMouseButtonUp ==
    /\ steps < MaxSteps
    /\ \E pos \in UpPointers : HandleEvent("MOUSEBUTTONUP", pos, pos)

\* the bookkeeping of a tick: the operation recorded and counted; the tick
\* draws the panel and does not change it
Done(call) ==
    /\ last' = call
    /\ steps' = steps + 1
    /\ UNCHANGED control_panel

\* the component shown for a term: 0 when the term is disabled
masked(k, component) == IF Get(pid_enabled, k) THEN component ELSE Zero

\* variant of sim_dt_of that leaves the speed out
sim_dt_unscaled(speed) == frame_dt

\* sim_dt = self.dt * self.simulation_speed
sim_dt_of(speed) == Mul(frame_dt, speed)

\* PIDSimulator.run: the body of the loop after handle_events.  Each local
\* of the body is bound to the value its statement computes.  The tick
\* renders the graphs when more than graph_update_interval of real time
\* has passed since they were rendered last; renders holds the answers the
\* clock can give
TickBody(renders) ==
    \E sim_dt \in {sim_dt_of(simulation_speed)},
       position \in {get_position(platform)} :
    \E r \in {PID_call(pid, center_x, position, sim_dt, pid_enabled)} :
    \E force \in {r.ret} :
    \E pushed \in {Platform_apply_force(platform, force)},
       time \in {Add(simulation_time, sim_dt)},
       comps \in {get_components(r.pid)} :
    \E g \in {add_data(graph_plotter, time, r.pid.state.error,
                       r.pid.state.output, masked("kp", comps[1]),
                       masked("ki", comps[2]), masked("kd", comps[3]))} :
        /\ Done([NoCall EXCEPT !.op = "tick",
                               !.setpoint = center_x,
                               !.current_value = position,
                               !.dt = sim_dt, !.enabled = pid_enabled,
                               !.before = pid.state,
                               !.platform_before = platform,
                               !.time_before = simulation_time,
                               !.arg = force, !.ret = force,
                               !.p_term = r.p_term, !.i_term = r.i_term,
                               !.d_term = r.d_term,
                               !.control_force = control_force(pushed),
                               !.regime = regime(pushed)])
        /\ pid' = r.pid
        /\ platform' = Platform_update(pushed, sim_dt)
        /\ simulation_time' = time
        /\ \E render \in renders :
               graph_plotter' = IF render THEN Plotter_update(g) ELSE g
        /\ UNCHANGED <<simulation_speed, pid_enabled>>

\* a tick of the loop, within the bound of Spec
Tick == steps < MaxSteps /\ TickBody(BOOLEAN)

Next ==
    \/ EventMouseButtonDown
    \/ EventMouseMotion
    \/ EventMouseButtonUp
    \/ Tick

Spec == Init /\ [][Next]_vars

----------------------------------------------------------------------------
(* Properties of the controller, checked under SpecPID *)

\* v lies in [-limit, +limit]
InLimit(v, limit) == Le(Neg(limit), v) /\ Le(v, limit)

\* this step is a call of the operation op
IsCall(op) == steps' = steps + 1 /\ last'.op = op

\* the mask the last update worked with
LastMask == EnabledOrDefault(last.enabled)

\* p_term + i_term + d_term of the last update, before the output clip
LastSum == Add(Add(last.p_term, last.i_term), last.d_term)

\* C1: in every state reachable by update, set_gains and reset in any order,
\* state.output lies in [-output_limit, +output_limit], and the value an
\* update returned is state.output, so it lies in that interval too
C1_OutputWithinLimit ==
    /\ InLimit(pid.state.output, pid.output_limit)
    /\ last.op = "PID.update" =>
          /\ last.ret = pid.state.output
          /\ InLimit(last.ret, pid.output_limit)

\* an update with dt > 0 whose terms add up to more than output_limit
\* returned output_limit
C1_Witness ==
    /\ last.op = "PID.update"
    /\ Lt(Zero, last.dt)
    /\ Lt(pid.output_limit, LastSum)
    /\ last.ret = pid.output_limit

\* C2: in every state reachable by update (integral term enabled or not),
\* set_gains and reset in any order, state.integral lies in
\* [-integral_limit, +integral_limit]
C2_IntegralWithinLimit == InLimit(pid.state.integral, pid.integral_limit)

\* an update with the integral term enabled whose error * dt alone exceeds
\* integral_limit left the integral at integral_limit
C2_Witness ==
    /\ last.op = "PID.update"
    /\ Get(LastMask, "ki")
    /\ Lt(pid.integral_limit,
          Mul(error_of(last.setpoint, last.current_value), last.dt))
    /\ pid.state.integral = pid.integral_limit

\* the integral an update with the integral term enabled leaves: error * dt
\* added to the value it found, the sum clipped to the integral limit
Accumulated ==
    Clip(Add(pid.state.integral,
             Mul(error_of(last'.setpoint, last'.current_value), last'.dt)),
         Neg(pid.integral_limit), pid.integral_limit)

\* C3 (amended): an update with the integral term disabled leaves
\* state.integral exactly as it found it and its i_term is 0, so the output
\* is the clipped p_term + d_term; an update with the term enabled adds
\* error * dt to the value it found, the preserved one included, and clips
\* the sum to [-integral_limit, +integral_limit]
C3_DisabledIntegralFrozen ==
    [][IsCall("PID.update") =>
         IF Get(EnabledOrDefault(last'.enabled), "ki")
         THEN pid'.state.integral = Accumulated
         ELSE /\ pid'.state.integral = pid.state.integral
              /\ last'.i_term = Zero
              /\ last'.ret = Clip(Add(last'.p_term, last'.d_term),
                                  Neg(pid.output_limit), pid.output_limit)]_vars

\* an update with the integral term disabled and a nonzero error left a
\* nonzero integral, the one an earlier update accumulated
C3_Witness ==
    /\ last.op = "PID.update"
    /\ ~Get(LastMask, "ki")
    /\ pid.state.error # Zero
    /\ last.dt # Zero
    /\ pid.state.integral # Zero

\* C3 as stated: an update with the term disabled leaves the integral as
\* it found it, and the first update with the term enabled after one with
\* the term disabled adds error * dt to the preserved value, whatever the
\* sum is
C3_AsStated ==
    [][IsCall("PID.update") =>
         IF ~Get(EnabledOrDefault(last'.enabled), "ki")
         THEN pid'.state.integral = pid.state.integral
         ELSE last.op = "PID.update" /\ ~Get(LastMask, "ki") =>
                 pid'.state.integral =
                     Add(pid.state.integral,
                         Mul(error_of(last'.setpoint, last'.current_value),
                             last'.dt))]_vars

\* C4: reset, called in any state, sets error, integral, derivative,
\* last_error and output to 0 and leaves kp, ki, kd, integral_limit and
\* output_limit as they were
C4_ResetFrame ==
    [][IsCall("PID.reset") =>
         /\ pid'.state.error = Zero
         /\ pid'.state.integral = Zero
         /\ pid'.state.derivative = Zero
         /\ pid'.state.last_error = Zero
         /\ pid'.state.output = Zero
         /\ pid'.kp = pid.kp
         /\ pid'.ki = pid.ki
         /\ pid'.kd = pid.kd
         /\ pid'.integral_limit = pid.integral_limit
         /\ pid'.output_limit = pid.output_limit]_vars

\* reset found every field of the state nonzero and gains other than the
\* constructor's
C4_Witness ==
    /\ last.op = "PID.reset"
    /\ last.before.error # Zero
    /\ last.before.integral # Zero
    /\ last.before.derivative # Zero
    /\ last.before.last_error # Zero
    /\ last.before.output # Zero
    /\ pid.kp = Zero
    /\ pid.ki = Int2R(3)
    /\ pid.state = PIDState

\* the controller can take an update with dt = 0 for every measurement and
\* mask: no division by dt is made, so no ZeroDivisionError is raised
ZeroDtDefined ==
    \A m \in Measurements, enabled \in EnabledArgs :
        PID_update(pid, m[1], m[2], Zero, enabled).state.derivative
            # ZeroDivisionError

\* C10: update with dt = 0 raises nothing and divides by nothing; it sets
\* state.derivative to 0 and its d_term is 0 whether or not the derivative
\* term is enabled, it leaves state.integral as it found it, and the output
\* it stores and returns is p_term + i_term clipped to the output limit
C10_ZeroDt ==
    /\ []ZeroDtDefined
    /\ [][IsCall("PID.update") /\ last'.dt = Zero =>
            /\ pid'.state.derivative = Zero
            /\ last'.d_term = Zero
            /\ pid'.state.integral = pid.state.integral
            /\ last'.ret = Clip(Add(last'.p_term, last'.i_term),
                                Neg(pid.output_limit), pid.output_limit)
            /\ pid'.state.output = last'.ret]_vars

\* the second update of a run had dt = 0, the derivative term enabled with
\* a nonzero gain and an error (1275) other than the one of the first
\* update (1, which with dt = 1/2 left the integral 1/2): the derivative
\* is 0 and the integral is still 1/2
C10_Witness ==
    /\ steps = 2
    /\ last.op = "PID.update"
    /\ last.dt = Zero
    /\ Get(LastMask, "kd")
    /\ Get(LastMask, "ki")
    /\ pid.kd # Zero
    /\ pid.state.error = Int2R(1275)
    /\ pid.state.integral = Half
    /\ pid.state.derivative = Zero

----------------------------------------------------------------------------
(* Properties of the driver, checked under Spec *)

\* the six series of the telemetry are empty
TelemetryEmpty ==
    /\ graph_plotter.time_data = <<>>
    /\ graph_plotter.error_data = <<>>
    /\ graph_plotter.output_data = <<>>
    /\ graph_plotter.p_data = <<>>
    /\ graph_plotter.i_data = <<>>
    /\ graph_plotter.d_data = <<>>

\* C5: in the state the release of the reset simulation button leaves, the
\* one the next tick or event starts from, the platform is at the center setpoint with
\* velocity 0 and acceleration 0, every field of the PID state is 0, the
\* telemetry is empty and the simulation time is 0: the four resets are
\* applied together
C5_ResetSimulationComplete ==
    "reset_simulation" \in last.changed =>
        /\ get_position(platform) = center_x
        /\ platform.velocity = Zero
        /\ platform.acceleration = Zero
        /\ pid.state.error = Zero
        /\ pid.state.integral = Zero
        /\ pid.state.derivative = Zero
        /\ pid.state.last_error = Zero
        /\ pid.state.output = Zero
        /\ TelemetryEmpty
        /\ simulation_time = Zero

\* reset_simulation found a platform moving away from the center, a PID
\* state with nonzero fields and a simulation time that had advanced
C5_Witness ==
    /\ last.op = "MOUSEBUTTONUP"
    /\ last.changed = {"reset_simulation"}
    /\ last.platform_before.x # center_x
    /\ last.platform_before.velocity # Zero
    /\ last.before.error # Zero
    /\ last.before.integral # Zero
    /\ last.before.output # Zero
    /\ last.time_before # Zero
    /\ simulation_time = Zero
    /\ TelemetryEmpty

----------------------------------------------------------------------------
(* Properties of the platform, checked under SpecPlatform *)

\* C6: after every return of Platform.update the acceleration is 0, on the
\* early return of the stopped branch as on the path through the end, for
\* any force applied before, mass, wind and velocity; the update of
\* platform.py, applied to the same platform with the same dt, leaves it 0
\* too
C6_AccelerationConsumed ==
    /\ last.op = "Platform.update" => platform.acceleration = Zero
    /\ last.op = "Platform.update"
         => Legacy_update(last.platform_before, last.dt).acceleration = Zero

\* an update took the early return with a force pending
C6_Witness ==
    /\ last.op = "Platform.update"
    /\ last.regime = "stopped"
    /\ last.platform_before.acceleration # Zero
    /\ platform.acceleration = Zero

\* C7: with mass 1, wind_force 0 and velocity 0, apply_force(force) with
\* |force| < 5 followed by update(dt), whatever dt, leaves the position
\* where it was and the velocity 0
C7_DeadbandAtRest ==
    [][/\ last.op = "Platform.apply_force"
       /\ Lt(RAbs(last.arg), Int2R(5))
       /\ platform.mass = One
       /\ platform.wind_force = Zero
       /\ platform.velocity = Zero
       /\ IsCall("Platform.update")
       => /\ get_position(platform') = get_position(platform)
          /\ platform'.velocity = Zero]_vars

\* at rest at x = 7 with mass 1 and no wind, a force of -4 was applied and
\* the update with the longest dt left the platform at x = 7, at rest
C7_Witness ==
    /\ last.op = "Platform.update"
    /\ last.dt = Int2R(5)
    /\ last.control_force = Int2R(-4)
    /\ last.platform_before.mass = One
    /\ last.platform_before.wind_force = Zero
    /\ last.platform_before.velocity = Zero
    /\ last.platform_before.x = Int2R(7)
    /\ platform.x = Int2R(7)
    /\ platform.velocity = Zero

\* C8: set_position(x), called in any state, leaves get_position() = x,
\* velocity 0 and acceleration 0, and mass and wind_force as they were; so
\* does the set_position of platform.py, which has no wind_force
C8_SetPosition ==
    last.op = "Platform.set_position" =>
        /\ get_position(platform) = last.arg
        /\ platform.velocity = Zero
        /\ platform.acceleration = Zero
        /\ platform.mass = last.platform_before.mass
        /\ platform.wind_force = last.platform_before.wind_force
        /\ LET q == Legacy_set_position(last.platform_before, last.arg)
           IN  /\ Legacy_get_position(q) = last.arg
               /\ q.velocity = Zero
               /\ q.acceleration = Zero
               /\ q.mass = last.platform_before.mass

\* set_position found a platform elsewhere, moving, with a force pending,
\* a mass other than 1 and wind
C8_Witness ==
    /\ last.op = "Platform.set_position"
    /\ last.platform_before.x # last.arg
    /\ last.platform_before.velocity # Zero
    /\ last.platform_before.acceleration # Zero
    /\ last.platform_before.mass # One
    /\ last.platform_before.wind_force # Zero
    /\ platform.x = last.arg
    /\ platform.velocity = Zero

----------------------------------------------------------------------------
(* Further properties of the controller, checked under SpecPID *)

\* the error of the last update
LastError == error_of(last.setpoint, last.current_value)

\* C11: after every update state.last_error is the error of that update,
\* setpoint - current_value, whatever the mask and dt; so an update with
\* the derivative term enabled and dt > 0 that follows another update
\* computes the derivative against the error of that preceding update,
\* whether or not the term was enabled in it
C11_LastErrorStored ==
    /\ [](last.op = "PID.update" =>
             /\ pid.state.last_error = LastError
             /\ pid.state.last_error = pid.state.error)
    /\ [][/\ last.op = "PID.update"
          /\ IsCall("PID.update")
          /\ Get(EnabledOrDefault(last'.enabled), "kd")
          /\ Lt(Zero, last'.dt)
          => pid'.state.derivative =
                Div(Sub(error_of(last'.setpoint, last'.current_value),
                        LastError),
                    last'.dt)]_vars

\* an update with the derivative term disabled and dt = 0, whose error
\* differs from the one of the update before it (1275 against 1, which
\* with dt = 1/2 left the integral 1/2), stored its own error as last_error
C11_Witness ==
    /\ steps = 2
    /\ last.op = "PID.update"
    /\ ~Get(LastMask, "kd")
    /\ Get(LastMask, "ki")
    /\ last.dt = Zero
    /\ pid.state.integral = Half
    /\ LastError = Int2R(1275)
    /\ pid.state.last_error = Int2R(1275)

----------------------------------------------------------------------------
(* Further properties of the driver, checked under Spec *)

\* the six series of the telemetry
Series == {"time_data", "error_data", "output_data",
           "p_data", "i_data", "d_data"}

\* every series of h is the series of g with one element appended
OneAppended(g, h) ==
    \A k \in Series :
        /\ Len(h[k]) = Len(g[k]) + 1
        /\ SubSeq(h[k], 1, Len(g[k])) = g[k]

\* the recorded times are strictly increasing in append order
TimesIncrease ==
    \A i \in 1..(Len(graph_plotter.time_data) - 1) :
        Lt(graph_plotter.time_data[i], graph_plotter.time_data[i + 1])

\* the step is an event that releases the reset graphs or the reset
\* simulation button
ResetEvent ==
    /\ steps' = steps + 1
    /\ last'.changed \cap {"reset_graphs", "reset_simulation"} # {}

\* C12: the history is empty at the start and after reset_graphs and
\* reset_simulation, every tick appends exactly one sample to each of the
\* six series, and no other event changes them, so the number of samples is
\* the number of ticks since the last reset; the recorded times are
\* strictly increasing, whatever speed changes, clicks and resets occurred
C12_OneSamplePerTick ==
    /\ [](steps = 0 => TelemetryEmpty)
    /\ []TimesIncrease
    /\ [](\A k \in Series :
             Len(graph_plotter[k]) = Len(graph_plotter.time_data))
    /\ [][IF IsCall("tick")
          THEN OneAppended(graph_plotter, graph_plotter')
          ELSE IF ResetEvent
          THEN \A k \in Series : graph_plotter'[k] = <<>>
          ELSE \A k \in Series : graph_plotter'[k] = graph_plotter[k]]_vars

\* the fourth step is a tick that left two samples, the second recorded at
\* a later time than the first; it ran at the speed a press on the middle
\* of the speed slider gave, 2.75, and the tick before it at another speed
C12_Witness ==
    /\ steps = 4
    /\ last.op = "tick"
    /\ Len(graph_plotter.time_data) = 2
    /\ Lt(graph_plotter.time_data[1], graph_plotter.time_data[2])
    /\ simulation_speed = Dec(11, 4)
    /\ control_panel.value.speed = simulation_speed
    /\ last.dt = Mul(frame_dt, simulation_speed)
    /\ last.time_before # last.dt

----------------------------------------------------------------------------
(* SpecConverge: the end-to-end scenario of the specification.  A          *)
(* PIDController and a Platform are driven by a loop of the scenario's own *)
(* (PID.update, apply_force, Platform.update, with dt = 1/60 and setpoint  *)
(* 0 from rest at x = 300, gains 5, 0.5 and 2, mass 1 and no wind) for     *)
(* 20 s.  The driver of main.py cannot run it: it always passes center_x   *)
(* as the setpoint.                                                        *)

\* the scenario's setpoint, start and duration in seconds
scenario_setpoint == Zero
scenario_start == Int2R(300)
scenario_end == Int2R(20)

InitConverge ==
    /\ pid = PIDController(Int2R(5), Half, Int2R(2))
    /\ platform = Platform(scenario_start, One)
    /\ graph_plotter = GraphPlotter
    /\ simulation_time = Zero
    /\ simulation_speed = One
    /\ pid_enabled = [kp |-> TRUE, ki |-> TRUE, kd |-> TRUE]
    /\ last = NoCall
    /\ steps = 0
    /\ control_panel = ControlPanel

\* one tick of the scenario with the given dt: PID.update, apply_force,
\* Platform.update, the elapsed time advanced
LoopTick(dt) ==
    \E position \in {get_position(platform)} :
    \E r \in {PID_call(pid, scenario_setpoint, position, dt, pid_enabled)} :
    \E force \in {r.ret} :
    \E pushed \in {Platform_apply_force(platform, force)} :
        /\ pid' = r.pid
        /\ platform' = Platform_update(pushed, dt)
        /\ simulation_time' = Add(simulation_time, dt)
        /\ last' = [NoCall EXCEPT !.op = "tick",
                                  !.setpoint = scenario_setpoint,
                                  !.current_value = position,
                                  !.dt = dt, !.enabled = pid_enabled,
                                  !.arg = force, !.ret = force,
                                  !.control_force = control_force(pushed),
                                  !.regime = regime(pushed)]
        /\ steps' = steps + 1
        /\ UNCHANGED control_panel
        /\ UNCHANGED <<graph_plotter, simulation_speed, pid_enabled>>

ConvergeTick ==
    /\ Lt(simulation_time, scenario_end)
    /\ LoopTick(frame_dt)

NextConverge == ConvergeTick

SpecConverge == InitConverge /\ [][NextConverge]_vars

\* the error of the loop: setpoint - position
LoopError == Sub(scenario_setpoint, get_position(platform))

\* C13: with kp = 5, ki = 0.5, kd = 2, all terms enabled, mass 1, no wind,
\* setpoint 0 and the platform starting at rest at 300, when the ticks of
\* dt = 1/60 have reached an elapsed time of 20 s, |error| is below 50
C13_Converges ==
    Le(scenario_end, simulation_time) => Lt(RAbs(LoopError), Int2R(50))

\* 1200 ticks were run, the elapsed time, the sum of 1200 floats 1/60, is
\* 20.000000000000146, and the platform, which started 300 away, is at
\* rest at -3.5038576329857327, less than 50 from the setpoint
C13_Witness ==
    /\ steps = 1200
    /\ Lt(scenario_end, simulation_time)
    /\ Lt(simulation_time, Add(scenario_end, frame_dt))
    /\ platform.velocity = Zero
    /\ platform.x = <<-1, <<7179, 2800, 15976, 1793>>, -51>>
    /\ Lt(RAbs(LoopError), Int2R(50))

----------------------------------------------------------------------------
(* SpecAccelerate: a platform alone, constructed at rest at x = 0 with     *)
(* mass 1 and no wind; apply_force(20) followed by update(1 / 60),         *)
(* repeated.                                                               *)

\* ticks per behaviour of SpecAccelerate
MaxForcedTicks == 18400

\* the force applied before every update
driving_force == Int2R(20)

\* the velocity at which the damping 0.1 * v balances the force 20
terminal_velocity == Div(driving_force, damping)

\* apply_force(20); update(1 / 60)
ForcedTick ==
    \E pushed \in {Platform_apply_force(platform, driving_force)} :
        /\ steps < MaxForcedTicks
        /\ platform' = Platform_update(pushed, Sixtieth)
        /\ PlatformStep([NoCall EXCEPT
                            !.op = "Platform.update", !.dt = Sixtieth,
                            !.arg = driving_force,
                            !.platform_before = pushed,
                            !.control_force = control_force(pushed),
                            !.regime = regime(pushed)])

NextAccelerate == ForcedTick

SpecAccelerate == InitPlatform /\ [][NextAccelerate]_vars

\* 199.99999999999147, the velocity the run stalls at: there
\* (20 - 0.1 * velocity) / 60 is less than half of the last place of the
\* velocity, and velocity + that is the velocity again
stall_velocity == <<1, <<16309, 16383, 16383, 399>>, -43>>

\* C9: from rest with mass 1 and wind_force 0, apply_force(20) before every
\* update(1/60): every tick leaves a position strictly greater than before
\* and a velocity below the terminal velocity 200; the velocity is strictly
\* greater than before on every tick until it is 199.99999999999147, and
\* every tick from there leaves it as it is
C9_Accelerates ==
    [][IsCall("Platform.update")
       => /\ Lt(platform.x, platform'.x)
          /\ Lt(platform'.velocity, terminal_velocity)
          /\ platform.velocity # stall_velocity
                => Lt(platform.velocity, platform'.velocity)
          /\ platform.velocity = stall_velocity
                => platform'.velocity = stall_velocity]_vars

\* C9 as stated: velocity and position increase strictly from each tick to
\* the next for as long as the velocity is below the terminal velocity
C9_AsStated ==
    [][IsCall("Platform.update")
       /\ Lt(platform.velocity, terminal_velocity)
       => /\ Lt(platform.velocity, platform'.velocity)
          /\ Lt(platform.x, platform'.x)]_vars

\* a tick that found the velocity 199.99999999999147, below 200, and left
\* it there, with the position greater than before
C9_Witness ==
    /\ last.op = "Platform.update"
    /\ last.arg = driving_force
    /\ last.platform_before.velocity = stall_velocity
    /\ Lt(last.platform_before.velocity, terminal_velocity)
    /\ platform.velocity = stall_velocity
    /\ Lt(last.platform_before.x, platform.x)

----------------------------------------------------------------------------
(* Properties of the tick of the driver, checked under Spec *)

\* the parameters a UI event can change
Parameters ==
    <<pid.kp, pid.ki, pid.kd, platform.mass, platform.wind_force,
      pid_enabled, simulation_speed>>

\* C15: a tick works on one snapshot of the parameters.  Events and ticks
\* are separate steps, so every change is applied before the tick's
\* PID.update and none inside it; the tick leaves the parameters as it
\* found them; PID.update and Platform.update get the same
\* dt = (1 / fps) * simulation_speed, computed from the gains, mask, mass
\* and wind the tick started with; the force applied is the output
\* PID.update returned; and simulation_time grows by that dt
C15_TickSnapshot ==
    [][IsCall("tick") =>
         \E dt \in {Mul(frame_dt, simulation_speed)} :
         \E r \in {PID_call(pid, center_x, get_position(platform), dt,
                            pid_enabled)} :
             /\ last'.dt = dt
             /\ pid' = r.pid
             /\ last'.arg = r.ret
             /\ last'.arg = pid'.state.output
             /\ platform' =
                   Platform_update(Platform_apply_force(platform, r.ret), dt)
             /\ simulation_time' = Add(simulation_time, dt)
             /\ Parameters' = Parameters]_vars

\* the fourth step is a tick that came after a click away from the center,
\* a press on the middle of the speed slider and a press on the right end
\* of the mass slider: it ran with dt = 2.75/60 and the mass of the slider,
\* applied a nonzero force and advanced the time by that dt
C15_Witness ==
    /\ steps = 4
    /\ last.op = "tick"
    /\ simulation_speed = Dec(11, 4)
    /\ platform.mass = update_value("mass", Right(SliderRect("mass")) - 1)
    /\ platform.mass # One
    /\ last.dt = Mul(frame_dt, Dec(11, 4))
    /\ last.arg # Zero
    /\ simulation_time = last.dt

----------------------------------------------------------------------------
(* SpecGraph: a GraphPlotter alone, its methods called in any order.       *)

MaxGraphCalls == 5

\* (time, error, output, p_component, i_component, d_component)
Samples ==
    { <<Zero, One, Int2R(9), Int2R(5), Zero, Int2R(4)>>,
      <<Int2R(15), Int2R(-3), Int2R(-15), Int2R(-15), Half, Neg(Half)>>,
      <<Int2R(30), Int2R(-574), Int2R(-100), Int2R(-2870), Int2R(-500),
        Zero>> }

InitGraph ==
    /\ pid = PIDController(Int2R(5), Half, Int2R(2))
    /\ platform = Platform(center_x, One)
    /\ graph_plotter = GraphPlotter
    /\ simulation_time = Zero
    /\ simulation_speed = One
    /\ pid_enabled = [kp |-> TRUE, ki |-> TRUE, kd |-> TRUE]
    /\ last = NoCall
    /\ steps = 0
    /\ control_panel = ControlPanel

GraphStep(op, g) ==
    /\ steps < MaxGraphCalls
    /\ graph_plotter' = g
    /\ last' = [Call(op, Zero) EXCEPT !.before = NoCall.before]
    /\ steps' = steps + 1
    /\ UNCHANGED control_panel
    /\ UNCHANGED <<pid, platform, simulation_time, simulation_speed,
                   pid_enabled>>

CallAddData ==
    \E s \in Samples :
        GraphStep("GraphPlotter.add_data",
                  add_data(graph_plotter, s[1], s[2], s[3], s[4],
                                   s[5], s[6]))

CallPlotUpdate == GraphStep("GraphPlotter.update",
                            Plotter_update(graph_plotter))

CallDraw == GraphStep("GraphPlotter.draw", Plotter_draw(graph_plotter))

CallZoomIn == GraphStep("GraphPlotter.zoom_in_y", zoom_in_y(graph_plotter))

CallZoomOut == GraphStep("GraphPlotter.zoom_out_y",
                         zoom_out_y(graph_plotter))

CallAutoScale == GraphStep("GraphPlotter.auto_scale",
                           auto_scale(graph_plotter))

CallGraphReset == GraphStep("GraphPlotter.reset",
                            Graph_reset(graph_plotter))

NextGraph ==
    \/ CallAddData
    \/ CallPlotUpdate
    \/ CallDraw
    \/ CallZoomIn
    \/ CallZoomOut
    \/ CallAutoScale
    \/ CallGraphReset

SpecGraph == InitGraph /\ [][NextGraph]_vars

Consumers ==
    {"GraphPlotter.update", "GraphPlotter.draw", "GraphPlotter.zoom_in_y",
     "GraphPlotter.zoom_out_y", "GraphPlotter.auto_scale"}

\* C16: update, draw, zoom_in_y, zoom_out_y and auto_scale leave the six
\* recorded sequences exactly as they were; add_data appends one element to
\* each of them and changes no earlier one; reset empties all six.
C16_ConsumersKeepTelemetry ==
    [][/\ (\E op \in Consumers : IsCall(op))
            => \A k \in Series : graph_plotter'[k] = graph_plotter[k]
       /\ IsCall("GraphPlotter.add_data")
            => OneAppended(graph_plotter, graph_plotter')
       /\ IsCall("GraphPlotter.reset")
            => \A k \in Series : graph_plotter'[k] = <<>>]_vars

\* update has just rendered a window that leaves out an older sample, which
\* the lists still hold
C16_Witness ==
    /\ last.op = "GraphPlotter.update"
    /\ graph_plotter.surface # NoSurface
    /\ Len(graph_plotter.surface.time) < Len(graph_plotter.time_data)
    /\ Len(graph_plotter.time_data) >= 3

----------------------------------------------------------------------------
\* C17: get_components returns (kp*error, ki*integral, kd*derivative) of the
\* gains and the state at the time of the call, whatever mask the last update
\* was given and whatever set_gains did since, and the call changes nothing
\* in the controller.
C17_GetComponents ==
    [][IsCall("PID.get_components")
        => /\ pid' = pid
           /\ last'.p_term = Mul(pid.kp, pid.state.error)
           /\ last'.i_term = Mul(pid.ki, pid.state.integral)
           /\ last'.d_term = Mul(pid.kd, pid.state.derivative)
           /\ (last.op = "PID.update" /\ Get(last.enabled, "ki") = FALSE
                 => last.i_term = Zero)]_vars

\* get_components reports a nonzero integral term although the last update
\* left it out of its output: the output is P + D, inside the limits
C17_Witness ==
    /\ last.op = "PID.get_components"
    /\ last.i_term # Zero
    /\ pid.state.output = Add(last.p_term, last.d_term)
    /\ Lt(RAbs(pid.state.output), pid.output_limit)

----------------------------------------------------------------------------
\* whether the mask of the last update has the term on: an absent mask, and
\* a mask without the key, have it on
On(key) ==
    \/ "none" \in DOMAIN last.enabled
    \/ key \notin DOMAIN last.enabled
    \/ last.enabled[key]

AllOn == [kp |-> TRUE, ki |-> TRUE, kd |-> TRUE]

\* the update just made, if made without a mask, returned the value and
\* left the controller that the same call with all three terms on gives
AbsentMaskIsAllOn ==
    last'.enabled = None
        => \E b \in {PID_call(pid, last'.setpoint, last'.current_value,
                              last'.dt, AllOn)} :
               pid' = b.pid /\ last'.ret = b.ret

\* the reference algorithm: state, ret and terms are the state, the value
\* and the three terms update must produce for controller c, the arguments,
\* and the three terms on or off
Reference(c, setpoint, value, dt, on_p, on_i, on_d, state, ret, terms) ==
    \E error \in {Sub(setpoint, value)} :
    \E p_term \in {IF on_p THEN Mul(c.kp, error) ELSE Zero},
       sum \in {Add(c.state.integral, Mul(error, dt))},
       derivative \in {IF on_d /\ Lt(Zero, dt)
                       THEN Div(Sub(error, c.state.last_error), dt)
                       ELSE Zero} :
    \E integral \in {IF ~on_i THEN c.state.integral
                     ELSE IF Lt(c.integral_limit, sum) THEN c.integral_limit
                     ELSE IF Lt(sum, Neg(c.integral_limit))
                          THEN Neg(c.integral_limit)
                     ELSE sum},
       d_term \in {IF on_d /\ Lt(Zero, dt) THEN Mul(c.kd, derivative)
                   ELSE Zero} :
    \E i_term \in {IF on_i THEN Mul(c.ki, integral) ELSE Zero} :
    \E total \in {Add(Add(p_term, i_term), d_term)} :
    \E output \in {IF Lt(c.output_limit, total) THEN c.output_limit
                   ELSE IF Lt(total, Neg(c.output_limit))
                        THEN Neg(c.output_limit)
                   ELSE total} :
        /\ state = [error |-> error, integral |-> integral,
                    derivative |-> derivative, last_error |-> error,
                    output |-> output]
        /\ ret = output
        /\ terms = <<p_term, i_term, d_term>>

\* C18: what update returns and leaves in the controller is the reference
\* algorithm applied to its arguments and to the controller before the call:
\* error, then the P term, the clamped integral and the I term, the
\* derivative against the previous call's error and the D term, and the
\* clamped sum; gains and limits are untouched.  A call without a mask does
\* what a call with all three terms on does.
C18_UpdateIsReference ==
    [][IsCall("PID.update")
       => /\ Reference(pid, last'.setpoint, last'.current_value,
                       last'.dt, On("kp")', On("ki")', On("kd")',
                       pid'.state, last'.ret,
                       <<last'.p_term, last'.i_term, last'.d_term>>)
          /\ [pid' EXCEPT !.state = pid.state] = pid
          /\ AbsentMaskIsAllOn]_vars

\* an update without a mask, on a controller that has state from an earlier
\* call, with all three terms nonzero and the output inside the limits
C18_Witness ==
    /\ last.op = "PID.update"
    /\ last.enabled = None
    /\ steps >= 2
    /\ last.p_term # Zero /\ last.i_term # Zero /\ last.d_term # Zero
    /\ last.ret = Add(Add(last.p_term, last.i_term), last.d_term)
    /\ Lt(RAbs(last.ret), pid.output_limit)

----------------------------------------------------------------------------
\* the three regimes as the claim gives them, for platform p and step dt
RegimeReference(p, dt) ==
    LET force == Add(Mul(p.acceleration, p.mass), p.wind_force)
        small == Lt(RAbs(force), Int2R(5))
        slow  == Lt(RAbs(p.velocity), Half)
        rate  == IF small THEN Half ELSE Tenth
        v == Add(p.velocity,
                 Mul(Sub(Add(p.acceleration, Div(p.wind_force, p.mass)),
                         Mul(rate, p.velocity)), dt))
    IN  IF small /\ slow
        THEN [regime |-> "stopped", velocity |-> Zero, x |-> p.x]
        ELSE [regime |-> IF small THEN "braking" ELSE "free",
              velocity |-> v, x |-> Add(p.x, Mul(v, dt))]

\* C19: update takes the regime that the force acceleration*mass +
\* wind_force and the velocity at the call select, whatever the calls before
\* it were: stopped (velocity 0, position kept), braking (damping 0.5) or
\* free (damping 0.1), and in the last two the position moves by the new
\* velocity times dt.  Mass and wind are untouched.
C19_ThreeRegimes ==
    [][IsCall("Platform.update")
        => \E r \in {RegimeReference(platform, last'.dt)} :
               /\ last'.regime = r.regime
               /\ platform'.velocity = r.velocity
               /\ platform'.x = r.x
               /\ platform'.mass = platform.mass
               /\ platform'.wind_force = platform.wind_force]_vars

\* an update in the braking regime: the platform had gained speed in the
\* free regime, the force is now inside the deadband, and it moved on by its
\* new, smaller velocity
C19_Witness ==
    /\ last.op = "Platform.update"
    /\ last.regime = "braking"
    /\ Lt(RAbs(platform.velocity), RAbs(last.platform_before.velocity))
    /\ platform.velocity # Zero
    /\ platform.x = Add(last.platform_before.x,
                        Mul(platform.velocity, last.dt))
    /\ platform.x # last.platform_before.x

----------------------------------------------------------------------------
(* SpecTrapped: the loop of PIDSimulator.run left alone after the user has *)
(* set the kp slider, the mass, the speed and the enabled boxes and has     *)
(* clicked the platform to a position near the centre: no event arrives,    *)
(* every step is a tick.                                                    *)

\* mouse_x of the click that placed the platform; the setpoint is center_x
TrapClicks == {571, 573, 574, 577}

\* kp: a press 18 pixels from the left end of the kp slider gives
\* 1.0285714285714285, one 35 pixels from it 2.0; 5.0 is the initial value
TrapKps    == {update_value("kp", SliderRect("kp").left + 18),
               update_value("kp", SliderRect("kp").left + 35), Int2R(5)}
\* mass: 1.0 is the initial value, 10.0 the slider dragged to the right
TrapMasses == {One, Int2R(10), slider_mass}
\* speed: a press 42 pixels from the left end of the speed slider gives
\* 0.9973684210526316; 2.2 is the initial value
TrapSpeeds == {update_value("speed", SliderRect("speed").left + 42),
               Dec(11, 5)}
TrapMasks  == {[kp |-> TRUE, ki |-> FALSE, kd |-> FALSE],
               [kp |-> TRUE, ki |-> TRUE, kd |-> TRUE]}

InitTrapped ==
    \E x \in TrapClicks, kp \in TrapKps, m \in TrapMasses,
       v \in TrapSpeeds, en \in TrapMasks :
        /\ pid = PID_set_gains(PIDController(Int2R(5), Half, Int2R(2)),
                               kp, Half, Int2R(2))
        /\ platform = Platform_set_position(
                          [Platform(center_x, One) EXCEPT !.mass = m],
                          Int2R(x))
        /\ graph_plotter = GraphPlotter
        /\ simulation_time = Zero
        /\ simulation_speed = v
        /\ pid_enabled = en
        /\ last = NoCall
        /\ steps = 0
        /\ control_panel = panel_showing(kp, Half, m, v, en)

NextTrapped == Tick

SpecTrapped == InitTrapped /\ [][NextTrapped]_vars

OnlyP == pid_enabled = [kp |-> TRUE, ki |-> FALSE, kd |-> FALSE]

\* the platform is at rest, without wind, at a nonzero error whose
\* proportional force is inside the deadband
Trapped ==
    LET error == Sub(center_x, get_position(platform))
    IN  /\ OnlyP
        /\ platform.wind_force = Zero
        /\ platform.velocity = Zero
        /\ error # Zero
        /\ Lt(RAbs(Mul(pid.kp, error)), Int2R(5))

\* C20: a tick that finds the loop trapped (only P enabled, no wind, the
\* platform at rest, 0 < |kp*error| < 5) leaves position and velocity as
\* they were, and the gain, the mask and the wind too, so the loop is trapped
\* again after it, with the same error.
C20_TrappedInDeadband ==
    [][Trapped /\ IsCall("tick")
        => /\ platform'.x = platform.x
           /\ platform'.velocity = platform.velocity
           /\ pid'.state.error = Sub(center_x, platform.x)
           /\ last'.ret = Mul(pid.kp, pid'.state.error)
           /\ pid'.kp = pid.kp
           /\ pid_enabled' = pid_enabled
           /\ platform'.wind_force = platform.wind_force]_vars

\* after four ticks the loop is still trapped where the click put the
\* platform, with a nonzero force applied by the last tick
C20_Witness ==
    /\ Trapped
    /\ steps = MaxSteps
    /\ last.op = "tick"
    /\ last.ret # Zero
    /\ platform.x = last.platform_before.x
    /\ Len(graph_plotter.error_data) = MaxSteps
    /\ \A i \in 1..MaxSteps :
           graph_plotter.error_data[i] = Sub(center_x, platform.x)

----------------------------------------------------------------------------
\* the platform as the first update of the scenario found it: at rest, mass
\* 1, no wind, with the acceleration apply_force(20) left
PushedFromRest(p) ==
    /\ p.velocity = Zero
    /\ p.mass = One
    /\ p.wind_force = Zero
    /\ p.acceleration = Int2R(20)

\* C21: an update that follows an update, with no apply_force between them,
\* computes with control force 0.  When the first of the two was
\* update(1/60) on a platform at rest with mass 1, no wind and force 20
\* applied, it leaves velocity 1/3, and the second update(1/60) takes the
\* stopped regime: velocity 0, position kept.
C21_ForceDrivesOneUpdate ==
    [][last.op = "Platform.update" /\ IsCall("Platform.update")
        => /\ platform.acceleration = Zero
           /\ last'.control_force = Zero
           /\ (PushedFromRest(last.platform_before)
                 /\ last.dt = Sixtieth /\ last'.dt = Sixtieth
               => /\ platform.velocity = Third
                  /\ last'.regime = "stopped"
                  /\ platform'.velocity = Zero
                  /\ platform'.x = platform.x)]_vars

\* the second update of the scenario has returned: it found velocity 1/3
\* and no acceleration, one tick away from the start, and stopped the
\* platform
C21_Witness ==
    /\ last.op = "Platform.update"
    /\ last.dt = Sixtieth
    /\ last.regime = "stopped"
    /\ last.control_force = Zero
    /\ last.platform_before.velocity = Third
    /\ last.platform_before.acceleration = Zero
    /\ last.platform_before.mass = One
    /\ last.platform_before.wind_force = Zero
    /\ platform.velocity = Zero
    /\ platform.x = last.platform_before.x

----------------------------------------------------------------------------
(* SpecUI: PIDSimulator.handle_events alone.  Every step is one pygame     *)
(* event, a button press, a pointer motion or a button release at some     *)
(* pointer position, handled by the control panel and applied to the       *)
(* controller, the platform, the plotter and the driver.                   *)

MaxUIEvents == 3

EventTypes == {"MOUSEBUTTONDOWN", "MOUSEMOTION", "MOUSEBUTTONUP"}

\* pointer positions: in the simulation area; far left and far right of
\* every slider; on the left end of the kp slider; on the ki and kd
\* sliders; on both ends of the mass slider; on the speed and wind
\* sliders; on the ki checkbox; on the reset simulation and the zoom in
\* button
Pointers ==
    { <<300, 100>>, <<0, 940>>, <<1599, 700>>,
      <<1210, 40>>, <<1300, 100>>, <<1300, 160>>,
      <<1180, 220>>, <<1559, 220>>, <<1370, 280>>, <<1275, 340>>,
      <<1190, 100>>, <<1400, 400>>, <<1200, 440>> }

\* the presses of SpecUI: the pointer still where the button went down, or
\* moved on
UIPresses == {<<pos, pos>> : pos \in Pointers} \cup MovedPresses

InitUI ==
    /\ pid = PIDController(Int2R(5), Half, Int2R(2))
    /\ platform = Platform(center_x, One)
    /\ graph_plotter = GraphPlotter
    /\ simulation_time = Zero
    /\ simulation_speed = Dec(11, 5)
    /\ pid_enabled = [kp |-> TRUE, ki |-> TRUE, kd |-> TRUE]
    /\ control_panel = ControlPanel
    /\ last = NoCall
    /\ steps = 0

MouseButtonDown ==
    /\ steps < MaxUIEvents
    /\ \E e \in UIPresses : HandleEvent("MOUSEBUTTONDOWN", e[1], e[2])

MouseMotion ==
    /\ steps < MaxUIEvents
    /\ \E pos \in Pointers : HandleEvent("MOUSEMOTION", pos, pos)

MouseButtonUp ==
    /\ steps < MaxUIEvents
    /\ \E pos \in Pointers : HandleEvent("MOUSEBUTTONUP", pos, pos)

NextUI == MouseButtonDown \/ MouseMotion \/ MouseButtonUp

SpecUI == InitUI /\ [][NextUI]_vars

\* v lies in [lo, hi]
Within(v, lo, hi) == Le(lo, v) /\ Le(v, hi)

\* C22: whatever events the panel has handled, the values in the core are
\* inside the slider ranges: mass in [0.1, 10], simulation_speed in [0.5, 5],
\* wind_force in [-20, 20], kp in [0, 20], ki in [0, 3], kd in [0, 10]; so
\* the mass is positive, force / mass is defined, and sim_dt is positive.
C22_ValuesInSliderRanges ==
    /\ Within(platform.mass, Tenth, Int2R(10))
    /\ Within(simulation_speed, Half, Int2R(5))
    /\ Within(platform.wind_force, Int2R(-20), Int2R(20))
    /\ Within(pid.kp, Zero, Int2R(20))
    /\ Within(pid.ki, Zero, Int2R(3))
    /\ Within(pid.kd, Zero, Int2R(10))
    /\ Lt(Zero, platform.mass)
    /\ Platform_apply_force(platform, One).acceleration # ZeroDivisionError
    /\ Lt(Zero, sim_dt_of(simulation_speed))

\* the mass slider was pressed and then dragged to the far left of the
\* window: the mass of the platform is the least the slider has
C22_Witness ==
    /\ last.op = "MOUSEMOTION"
    /\ last.arg = Zero
    /\ control_panel.dragging.mass
    /\ platform.mass = Tenth
    /\ platform.mass # last.platform_before.mass

----------------------------------------------------------------------------
\* event.pos of the press was in the simulation area
InSimulationArea(call) ==
    /\ Lt(call.arg, Int2R(sim_width))
    /\ Lt(call.ret, Int2R(sim_height))

\* C23: a click in the simulation area puts the platform at the clicked x
\* with velocity 0 and acceleration 0 and changes nothing else: controller,
\* telemetry, simulation time, speed and mask are as before.  The tick that
\* follows it takes its derivative against the last_error of before the
\* click and adds to the integral of before the click.  The code does not
\* do the first part: it places the platform where the pointer is when the
\* event is handled, not where the button went down
C23_AsStated ==
    [][/\ IsCall("MOUSEBUTTONDOWN") /\ InSimulationArea(last')
            => /\ platform' = [platform EXCEPT !.x = last'.arg,
                                               !.velocity = Zero,
                                               !.acceleration = Zero]
               /\ pid' = pid
               /\ graph_plotter' = graph_plotter
               /\ simulation_time' = simulation_time
               /\ simulation_speed' = simulation_speed
               /\ pid_enabled' = pid_enabled
       /\ last.op = "MOUSEBUTTONDOWN" /\ InSimulationArea(last)
          /\ IsCall("tick")
            => /\ last'.before = pid.state
               /\ pid'.state.error = Sub(center_x, platform.x)
               /\ (pid_enabled.kd
                     => pid'.state.derivative =
                            Div(Sub(pid'.state.error, pid.state.last_error),
                                last'.dt))
               /\ (pid_enabled.ki
                     => pid'.state.integral =
                            Clip(Add(pid.state.integral,
                                     Mul(pid'.state.error, last'.dt)),
                                 Neg(pid.integral_limit),
                                 pid.integral_limit))]_vars

----------------------------------------------------------------------------
(* SpecEscape: the loop of PIDSimulator.run left alone, every step a tick, *)
(* after the user has set kp, ki and in two cases the mass, switched the D *)
(* term off (and in one case the P term too), in three cases let one tick  *)
(* run with the platform elsewhere and pressed reset graphs, and has then  *)
(* clicked the platform to a position near the centre.                     *)

MaxEscapeTicks == 280

\* the gains, the mass, the mask, the position of the platform in the
\* earlier tick (0: no earlier tick) and the position the click gave it
EscapeCases ==
    { [kp |-> Int2R(5), ki |-> Half, mass |-> One, p_on |-> TRUE,
       earlier |-> 850, click |-> 574],
      [kp |-> Int2R(5), ki |-> Half, mass |-> One, p_on |-> TRUE,
       earlier |-> 300, click |-> 576],
      [kp |-> Int2R(2), ki |-> Int2R(3), mass |-> One, p_on |-> TRUE,
       earlier |-> 0, click |-> 574],
      [kp |-> Int2R(2), ki |-> Int2R(3), mass |-> One, p_on |-> FALSE,
       earlier |-> 0, click |-> 572],
      [kp |-> Int2R(2), ki |-> Int2R(3), mass |-> Int2R(10), p_on |-> TRUE,
       earlier |-> 0, click |-> 576],
      [kp |-> Int2R(5), ki |-> Half, mass |-> slider_mass, p_on |-> TRUE,
       earlier |-> 576, click |-> 574] }

\* the plotter the scenario leaves, ran the controller after the earlier
\* tick: its add_data has raised the scales, and reset(), which the reset
\* graphs button calls, empties the series and keeps the scales (update
\* returns early for one sample)
EscapePlotter(ran, sim_dt, mask) ==
    Once({ Graph_reset(add_data(GraphPlotter, sim_dt, ran.state.error,
                                ran.state.output,
                                IF mask.kp THEN comps[1] ELSE Zero,
                                IF mask.ki THEN comps[2] ELSE Zero,
                                IF mask.kd THEN comps[3] ELSE Zero)) :
           comps \in {get_components(ran)} })

InitEscape ==
    \E c \in EscapeCases :
        LET mask == [kp |-> c.p_on, ki |-> TRUE, kd |-> FALSE]
            set  == PID_set_gains(PIDController(Int2R(5), Half, Int2R(2)),
                                  c.kp, c.ki, Int2R(2))
            ran  == PID_update(set, center_x, Int2R(c.earlier),
                               sim_dt_of(Dec(11, 5)), mask)
        IN  /\ pid = IF c.earlier = 0 THEN set ELSE ran
            /\ platform = Platform_set_position(
                              [Platform(center_x, One) EXCEPT
                                  !.mass = c.mass],
                              Int2R(c.click))
            /\ graph_plotter =
                   IF c.earlier = 0 THEN GraphPlotter
                   ELSE EscapePlotter(ran, sim_dt_of(Dec(11, 5)), mask)
            /\ simulation_time = Zero
            /\ simulation_speed = Dec(11, 5)
            /\ pid_enabled = mask
            /\ control_panel =
                   panel_showing(c.kp, c.ki, c.mass, Dec(11, 5), mask)
            /\ last = NoCall
            /\ steps = 0

\* a tick of the scenario; every frame of it takes more real time than
\* graph_update_interval, so that every tick renders the graphs
EscapeTick == steps < MaxEscapeTicks /\ TickBody({TRUE})

NextEscape == EscapeTick

SpecEscape == InitEscape /\ [][NextEscape]_vars

\* the case of the claim: the I term on with ki > 0, no wind, the platform
\* at rest at a nonzero error with kp*|e| + ki*integral_limit >= 5
EscapeCase ==
    LET e == Sub(center_x, get_position(platform))
    IN  /\ pid_enabled.ki
        /\ Lt(Zero, pid.ki)
        /\ platform.wind_force = Zero
        /\ platform.velocity = Zero
        /\ e # Zero
        /\ Le(Int2R(5), Add(Mul(pid.kp, RAbs(e)),
                            Mul(pid.ki, pid.integral_limit)))

\* the last tick had |output| >= 5 and moved the platform
Escaped ==
    /\ last.op = "tick"
    /\ last.regime # "stopped"
    /\ Le(Int2R(5), RAbs(last.ret))
    /\ platform.x # last.platform_before.x

\* a tick of the case of the claim that takes the stopped regime
StoppedTick ==
    /\ EscapeCase
    /\ IsCall("tick")
    /\ last'.regime = "stopped"

\* C24 as stated: on every stopped tick the integral grows in magnitude
C24_AsStated ==
    [][StoppedTick
        => Lt(RAbs(pid.state.integral), RAbs(pid'.state.integral))]_vars

\* no tick so far has moved the platform: it is at rest where every tick
\* found it (the telemetry holds the error of every tick)
NeverEscaped ==
    /\ platform.velocity = Zero
    /\ \A i \in 1..Len(graph_plotter.error_data) :
           graph_plotter.error_data[i] = Sub(center_x, platform.x)

\* fewer than MaxEscapeTicks ticks have run
TickReady == steps < MaxEscapeTicks

\* C24: on every stopped tick the integral moves by error * dt, towards the
\* sign of the error (its magnitude shrinks while it has the other sign),
\* and the position is kept; a tick that leaves the stopped regime has
\* |output| >= 5 and moves the platform; and as long as no tick has moved
\* the platform fewer than MaxEscapeTicks ticks have run, so the loop,
\* which never stops ticking, reaches the tick that moves the platform
\* after finitely many.
C24_IntegralEscapesDeadband ==
    /\ [](NeverEscaped => TickReady)
    /\ [][StoppedTick
           => /\ pid'.state.integral
                   = Add(pid.state.integral,
                         Mul(Sub(center_x, platform.x), last'.dt))
              /\ Lt(Zero, Mul(Sub(center_x, platform.x),
                              Sub(pid'.state.integral, pid.state.integral)))
              /\ platform'.x = platform.x]_vars
    /\ [][EscapeCase /\ IsCall("tick") /\ last'.regime # "stopped"
           => Escaped']_vars

\* the tick that escapes after at least two hundred stopped ticks that
\* began with the integral on the other side of zero
C24_Witness ==
    /\ Escaped
    /\ steps > 200
    /\ Len(graph_plotter.error_data) = steps
    /\ graph_plotter.error_data[1] = last.before.error
    /\ Lt(Mul(graph_plotter.i_data[1], last.before.error), Zero)
    /\ Le(Zero, Mul(pid.state.integral, last.before.error))

====
